---- MODULE Spec2Model ----
(***************************************************************************)
(* KARMA pipeline (src/karma_pipeline.py): the versioned knowledge graph,  *)
(* its ingest run (process_document), its maintenance run                  *)
(* (process_update_document), the integration step (integrate_triples)     *)
(* and the query surface.                                                  *)
(*                                                                         *)
(* Python strings the code inspects character by character (names,         *)
(* relations, versions, version ranges, entity ids, identity keys) are     *)
(* sequences of one-character strings, so that lower(), replace(),         *)
(* split(), the "in" test, concatenation and the lexicographic comparison  *)
(* are computed as the code computes them.  Strings the code only stores   *)
(* and copies (descriptions, software names, statuses) are TLA+ strings.   *)
(***************************************************************************)
EXTENDS Integers, Sequences, FiniteSets, TLC

(***************************************************************************)
(* Python str operations                                                   *)
(***************************************************************************)

\* The characters used by the model, in code point order (str comparison
\* in Python is by code point).
Ascii ==
    << " ", "+", "-", "/",
       "0", "1", "2", "3", "4", "5", "6", "7", "8", "9",
       "A", "B", "C", "D", "E", "F", "G", "H", "I", "J", "K", "L", "M",
       "N", "O", "P", "Q", "R", "S", "T", "U", "V", "W", "X", "Y", "Z",
       "_",
       "a", "b", "c", "d", "e", "f", "g", "h", "i", "j", "k", "l", "m",
       "n", "o", "p", "q", "r", "s", "t", "u", "v", "w", "x", "y", "z",
       "|" >>

Chars == { Ascii[i] : i \in 1..Len(Ascii) }

OrdOf == [ c \in Chars |-> CHOOSE i \in 1..Len(Ascii) : Ascii[i] = c ]

\* ord(c), as the position in Ascii
Ord(c) == OrdOf[c]

IsUpper(c) == Ord(c) >= Ord("A") /\ Ord(c) <= Ord("Z")

\* str.lower() on one character
LowerChar(c) == IF IsUpper(c) THEN Ascii[Ord(c) - Ord("A") + Ord("a")] ELSE c

\* str.lower()
Lower(s) == [i \in 1..Len(s) |-> LowerChar(s[i])]

\* s.replace(old, new) for single characters old and new
ReplaceChar(s, old, new) == [i \in 1..Len(s) |-> IF s[i] = old THEN new ELSE s[i]]

\* s.replace(old, "") for a single character old
RemoveChar(s, old) == SelectSeq(s, LAMBDA c : c # old)

\* old in s, for a single character old
HasChar(s, c) == \E i \in 1..Len(s) : s[i] = c

\* s.split(sep) for a single character sep: the list of the parts
RECURSIVE Split(_, _)
Split(s, sep) ==
    IF ~HasChar(s, sep) THEN << s >>
    ELSE LET k == CHOOSE i \in 1..Len(s) :
                      s[i] = sep /\ \A j \in 1..(i - 1) : s[j] # sep
         IN  << SubSeq(s, 1, k - 1) >> \o Split(SubSeq(s, k + 1, Len(s)), sep)

\* a <= b on Python strings: lexicographic by code point
RECURSIVE StrLE(_, _)
StrLE(a, b) ==
    IF a = << >> THEN TRUE
    ELSE IF b = << >> THEN FALSE
    ELSE IF a[1] # b[1] THEN Ord(a[1]) < Ord(b[1])
    ELSE StrLE(Tail(a), Tail(b))

\* a >= b on Python strings
StrGE(a, b) == StrLE(b, a)

(***************************************************************************)
(* Enumerations (values are the serialized strings)                        *)
(***************************************************************************)

\* EntityType
UI_ELEMENT == << "U", "I", "E", "l", "e", "m", "e", "n", "t" >>
FEATURE == << "F", "e", "a", "t", "u", "r", "e" >>
PROCEDURE == << "P", "r", "o", "c", "e", "d", "u", "r", "e" >>
STEP == << "S", "t", "e", "p" >>
OUTCOME == << "O", "u", "t", "c", "o", "m", "e" >>
CONCEPT == << "C", "o", "n", "c", "e", "p", "t" >>
SHORTCUT == << "S", "h", "o", "r", "t", "c", "u", "t" >>
SETTING == << "S", "e", "t", "t", "i", "n", "g" >>
FILE_FORMAT == << "F", "i", "l", "e", "F", "o", "r", "m", "a", "t" >>
VERSION == << "V", "e", "r", "s", "i", "o", "n" >>
CONSTRAINT == << "C", "o", "n", "s", "t", "r", "a", "i", "n", "t" >>
UNKNOWN == << "U", "n", "k", "n", "o", "w", "n" >>

\* RelationType (the members the pipeline itself writes, and one the
\* relationship extraction prompt lists)
LOCATED_IN == << "l", "o", "c", "a", "t", "e", "d", "_", "i", "n" >>
REQUIRES == << "r", "e", "q", "u", "i", "r", "e", "s" >>
PART_OF == << "p", "a", "r", "t", "_", "o", "f" >>
NEXT_STEP == << "n", "e", "x", "t", "_", "s", "t", "e", "p" >>
ACHIEVES == << "a", "c", "h", "i", "e", "v", "e", "s" >>
INTRODUCED_IN == << "i", "n", "t", "r", "o", "d", "u", "c", "e", "d", "_", "i", "n" >>
REMOVED_IN == << "r", "e", "m", "o", "v", "e", "d", "_", "i", "n" >>
REPLACED_BY == << "r", "e", "p", "l", "a", "c", "e", "d", "_", "b", "y" >>
RENAMED_TO == << "r", "e", "n", "a", "m", "e", "d", "_", "t", "o" >>
MOVED_TO == << "m", "o", "v", "e", "d", "_", "t", "o" >>
RELATED_TO == << "r", "e", "l", "a", "t", "e", "d", "_", "t", "o" >>

\* RelationType: the values of the enumeration
RelationType ==
    { LOCATED_IN,
      << "a", "c", "c", "e", "s", "s", "e", "d", "_", "v", "i", "a" >>,
      << "c", "o", "n", "t", "a", "i", "n", "s" >>,
      << "a", "c", "t", "i", "v", "a", "t", "e", "s" >>,
      REQUIRES,
      << "e", "n", "a", "b", "l", "e", "s" >>,
      << "e", "n", "h", "a", "n", "c", "e", "s" >>,
      << "c", "o", "n", "f", "l", "i", "c", "t", "s", "_", "w", "i", "t", "h" >>,
      << "a", "l", "t", "e", "r", "n", "a", "t", "i", "v", "e", "_", "t", "o" >>,
      PART_OF,
      NEXT_STEP,
      ACHIEVES,
      << "p", "r", "e", "r", "e", "q", "u", "i", "s", "i", "t", "e", "_", "f", "o", "r" >>,
      << "s", "h", "o", "r", "t", "c", "u", "t", "_", "f", "o", "r" >>,
      << "c", "o", "n", "f", "i", "g", "u", "r", "e", "d", "_", "b", "y" >>,
      << "d", "e", "f", "a", "u", "l", "t", "_", "v", "a", "l", "u", "e" >>,
      << "s", "u", "p", "p", "o", "r", "t", "s" >>,
      << "e", "x", "p", "o", "r", "t", "s", "_", "t", "o" >>,
      << "i", "m", "p", "o", "r", "t", "s", "_", "f", "r", "o", "m" >>,
      INTRODUCED_IN,
      REMOVED_IN,
      << "c", "h", "a", "n", "g", "e", "d", "_", "i", "n" >>,
      REPLACED_BY,
      RENAMED_TO,
      MOVED_TO,
      RELATED_TO }

\* TripleStatus
ACTIVE == "active"
DEPRECATED == "deprecated"
NEEDS_REVIEW == "needs_review"
PENDING == "pending"

TripleStatus == { ACTIVE, DEPRECATED, NEEDS_REVIEW, PENDING }

\* DocumentType values
DocumentType ==
    { "tutorial", "reference", "release_notes", "faq", "troubleshooting",
      "quick_start", "unknown" }

RELEASE_NOTES == "release_notes"

(***************************************************************************)
(* Data structures                                                         *)
(***************************************************************************)

EmptyStr == << >>

\* UsageKnowledgeTriple(...) with the dataclass defaults for the fields the
\* caller does not pass.  confidence is in hundredths (0.95 is 95).
UsageKnowledgeTriple(head, relation, tail, head_type, tail_type, introduced_version, valid_version_range, confidence, step_order, software) ==
    [ head |-> head, relation |-> relation, tail |-> tail,
      head_type |-> head_type, tail_type |-> tail_type,
      introduced_version |-> introduced_version,
      deprecated_version |-> EmptyStr,
      valid_version_range |-> valid_version_range,
      confidence |-> confidence,
      step_order |-> step_order,
      status |-> ACTIVE,
      software |-> software ]

\* SoftwareEntity(...)
SoftwareEntity(entity_id, name, entity_type, description, version_introduced, software) ==
    [ entity_id |-> entity_id, name |-> name, entity_type |-> entity_type,
      description |-> description, version_introduced |-> version_introduced,
      software |-> software ]

\* Procedure(...)
Procedure(procedure_id, name, steps, outcome, software) ==
    [ procedure_id |-> procedure_id, name |-> name, steps |-> steps,
      outcome |-> outcome, software |-> software ]

\* ChangeRecord(...)
ChangeRecord(change_type, entity_name, entity_type, old_value, new_value, version, description) ==
    [ change_type |-> change_type, entity_name |-> entity_name,
      entity_type |-> entity_type, old_value |-> old_value,
      new_value |-> new_value, version |-> version, description |-> description ]

(***************************************************************************)
(* KnowledgeIntegrationAgent.integrate_triples                             *)
(***************************************************************************)

\* key = f"{t.head.lower()}|{t.relation}|{t.tail.lower()}"
TripleKey(t) == Lower(t.head) \o << "|" >> \o t.relation \o << "|" >> \o Lower(t.tail)

\* the set of keys of the existing triples
ExistingSet(existing_triples) ==
    { TripleKey(existing_triples[i]) : i \in 1..Len(existing_triples) }

\* the loop over new_triples: unique_new, given the keys seen so far
RECURSIVE UniqueNew(_, _)
UniqueNew(new_triples, existing_set) ==
    IF new_triples = << >> THEN << >>
    ELSE LET t == Head(new_triples)
             key == TripleKey(t)
         IN  IF key \notin existing_set
             THEN << t >> \o UniqueNew(Tail(new_triples), existing_set \cup { key })
             ELSE UniqueNew(Tail(new_triples), existing_set)

\* integrate_triples returns (unique_new, [], 0, 0, 0.0)
integrate_triples(new_triples, existing_triples) ==
    IF new_triples = << >>
    THEN [ to_add |-> << >>, to_flag |-> << >> ]
    ELSE [ to_add |-> UniqueNew(new_triples, ExistingSet(existing_triples)),
           to_flag |-> << >> ]

(***************************************************************************)
(* Extraction Service responses.  A response is the outcome of one call of *)
(* client.responses.create followed by json.loads:                         *)
(*   kind = "error"        the call raised                                 *)
(*   kind = "unparseable"  json.loads raised JSONDecodeError               *)
(*   kind = "json"         a parsed payload, in the other fields           *)
(***************************************************************************)

\* dict.get(key, default) on a payload modelled as a record
Get(d, key, default) == IF key \in DOMAIN d THEN d[key] ELSE default

\* f"..._{name.lower().replace(' ', '_')}"
NormalizeName(name) == ReplaceChar(Lower(name), " ", "_")

\* DocumentClassifierAgent.classify_document: the classification dict
classify_document(resp) ==
    IF resp.kind = "json"
    THEN resp.payload
    ELSE [ document_type |-> "unknown", software |-> "Unknown",
           version |-> << "N", "/", "A" >> ]

\* entity_id of UIElementExtractionAgent.extract_ui_elements
UIEntityId(name) == << "u", "i", "_" >> \o NormalizeName(name)

\* entity_id of FeatureExtractionAgent.extract_features and of the 'added'
\* branch of process_update_document
TypedEntityId(entity_type, name) == Lower(entity_type) \o << "_" >> \o NormalizeName(name)

\* UIElementExtractionAgent.extract_ui_elements: the entity list
extract_ui_elements(resp, software) ==
    IF resp.kind # "json" THEN << >>
    ELSE LET elems == resp.ui_elements
             made == [ i \in 1..Len(elems) |->
                         SoftwareEntity(UIEntityId(elems[i].name), elems[i].name,
                                        UI_ELEMENT, elems[i].description,
                                        EmptyStr, software) ]
         IN  SelectSeq(made, LAMBDA e : e.name # EmptyStr)

\* type_mapping.get(type, EntityType.UNKNOWN) of extract_features
FeatureTypeMapping(type) ==
    IF type \in { FEATURE, CONCEPT, SETTING, FILE_FORMAT, CONSTRAINT, SHORTCUT, OUTCOME }
    THEN type ELSE UNKNOWN

\* FeatureExtractionAgent.extract_features: the entity list
extract_features(resp, software) ==
    IF resp.kind # "json" THEN << >>
    ELSE LET elems == resp.entities
             made == [ i \in 1..Len(elems) |->
                         LET entity_type == FeatureTypeMapping(elems[i].type)
                         IN  SoftwareEntity(TypedEntityId(entity_type, elems[i].name),
                                            elems[i].name, entity_type,
                                            elems[i].description, EmptyStr, software) ]
         IN  SelectSeq(made, LAMBDA e : e.name # EmptyStr)

\* str(i) for 0 <= i <= 9
Digit(i) == << Ascii[Ord("0") + i] >>

\* s[:n]
Prefix(s, n) == IF Len(s) <= n THEN s ELSE SubSeq(s, 1, n)

\* procedure_id of ProcedureExtractionAgent.extract_procedures
ProcedureId(i, name) ==
    << "p", "r", "o", "c", "_" >> \o Digit(i) \o << "_" >> \o Prefix(NormalizeName(name), 30)

\* ProcedureExtractionAgent.extract_procedures: the procedure list
extract_procedures(resp, software) ==
    IF resp.kind # "json" THEN << >>
    ELSE LET procs == resp.procedures
             made == [ i \in 1..Len(procs) |->
                         Procedure(ProcedureId(i - 1, procs[i].name), procs[i].name,
                                   procs[i].steps, procs[i].outcome, software) ]
         IN  SelectSeq(made, LAMBDA p : p.name # EmptyStr /\ p.steps # << >>)

\* entity_map.get(name.lower()) of extract_relationships, entity_map being
\* {e.name.lower(): e for e in entities} (the last entity of a name wins)
EntityTypeOf(entities, name) ==
    LET hits == { i \in 1..Len(entities) : Lower(entities[i].name) = Lower(name) }
    IN  IF hits = { } THEN UNKNOWN
        ELSE entities[CHOOSE i \in hits : \A j \in hits : j <= i].entity_type

\* RelationshipExtractionAgent.extract_relationships: the triple list
extract_relationships(resp, entities) ==
    IF entities = << >> THEN << >>
    ELSE IF resp.kind # "json" THEN << >>
    ELSE LET rels == resp.relationships
             made == [ i \in 1..Len(rels) |->
                         UsageKnowledgeTriple(
                             rels[i].head, Get(rels[i], "relation", RELATED_TO),
                             rels[i].tail,
                             EntityTypeOf(entities, rels[i].head),
                             EntityTypeOf(entities, rels[i].tail),
                             EmptyStr, EmptyStr, rels[i].confidence, 0, "") ]
         IN  SelectSeq(made, LAMBDA t : t.head # EmptyStr /\ t.tail # EmptyStr)

\* the valid range "unknown"
RangeUnknown == << "u", "n", "k", "n", "o", "w", "n" >>

\* VersionResolutionAgent.resolve_versions: the triple list with its version
\* fields set.  No call is made for an empty list.
resolve_versions(triples, resp, detected_version) ==
    IF triples = << >> THEN << >>
    ELSE IF resp.kind = "error" THEN triples
    ELSE IF resp.kind = "unparseable"
    THEN [ i \in 1..Len(triples) |->
             IF detected_version # EmptyStr
             THEN [ triples[i] EXCEPT !.valid_version_range = detected_version \o << "+" >> ]
             ELSE triples[i] ]
    ELSE LET versions == resp.versions
         IN  [ i \in 1..Len(triples) |->
                 LET t1 == IF i <= Len(versions)
                           THEN [ triples[i] EXCEPT
                                    !.introduced_version =
                                        Get(versions[i], "introduced_version", EmptyStr),
                                    !.valid_version_range =
                                        Get(versions[i], "valid_range", RangeUnknown) ]
                           ELSE triples[i]
                 IN  IF t1.introduced_version = EmptyStr /\ detected_version # EmptyStr
                     THEN [ t1 EXCEPT !.valid_version_range = detected_version \o << "+" >> ]
                     ELSE t1 ]

\* type_mapping.get(entity_type, EntityType.UNKNOWN) of detect_changes
ChangeTypeMapping(type) ==
    IF type \in { FEATURE, UI_ELEMENT, SETTING, SHORTCUT, FILE_FORMAT, CONCEPT }
    THEN type ELSE UNKNOWN

\* ChangeDetectionAgent.detect_changes: (changes, version)
detect_changes(resp) ==
    IF resp.kind # "json" THEN [ changes |-> << >>, version |-> EmptyStr ]
    ELSE LET cl == resp.changes
             made == [ i \in 1..Len(cl) |->
                         ChangeRecord(Get(cl[i], "change_type", "changed"),
                                      cl[i].entity_name,
                                      ChangeTypeMapping(cl[i].entity_type),
                                      cl[i].old_value, cl[i].new_value,
                                      resp.version, cl[i].description) ]
         IN  [ changes |-> SelectSeq(made, LAMBDA c : c.entity_name # EmptyStr),
               version |-> resp.version ]

\* ImpactAnalysisAgent.analyze_impact: the affected list.  No call is made
\* when there are no changes or no existing triples.
analyze_impact(changes, existing_triples, resp) ==
    IF changes = << >> \/ existing_triples = << >> THEN << >>
    ELSE IF resp.kind # "json" THEN << >>
    ELSE resp.affected_triples

(***************************************************************************)
(* KARMA: the pipeline object.  self is                                    *)
(*   knowledge_graph  entities (entity_id -> SoftwareEntity), triples      *)
(*                    (the list), procedures (procedure_id -> Procedure),  *)
(*                    software, versions                                   *)
(*   intermediate     deprecated_triples                                   *)
(* A reference to a stored triple object (as kept in                       *)
(* intermediate.deprecated_triples and in the lists the queries return)    *)
(* is the triple's position in knowledge_graph["triples"], from 1.         *)
(***************************************************************************)

\* d[key] = value on a dict modelled as a function
DictSet(d, key, value) ==
    [ k \in (DOMAIN d) \cup { key } |-> IF k = key THEN value ELSE d[k] ]

\* ApplyImpact, but only the upper end of the index is checked, so that a
\* negative index counts from the end of the list (triples[-1] is the last)
ApplyImpactFromEnd(acc, impact, version) ==
    LET idx == Get(impact, "triple_index", [ type |-> "int", value |-> -1 ])
        kind == Get(impact, "impact", "")
        at == IF idx.value < 0 THEN Len(acc.triples) + idx.value + 1
                               ELSE idx.value + 1
    IN  IF idx.type # "int" THEN [ acc EXCEPT !.raised = TRUE ]
        ELSE IF -Len(acc.triples) <= idx.value /\ idx.value < Len(acc.triples)
        THEN IF kind = "deprecated"
             THEN [ acc EXCEPT
                      !.triples[at].status = DEPRECATED,
                      !.triples[at].deprecated_version = version,
                      !.deprecated_triples = Append(@, at),
                      !.deprecated_count = @ + 1 ]
             ELSE IF kind = "needs_update"
             THEN [ acc EXCEPT
                      !.triples[at].status = NEEDS_REVIEW,
                      !.updated_count = @ + 1 ]
             ELSE acc
        ELSE acc

\* ApplyImpact, but 'deprecated' leaves deprecated_version as it was
ApplyImpactNoVersion(acc, impact, version) ==
    LET idx == Get(impact, "triple_index", [ type |-> "int", value |-> -1 ])
        kind == Get(impact, "impact", "")
    IN  IF idx.type # "int" THEN [ acc EXCEPT !.raised = TRUE ]
        ELSE IF 0 <= idx.value /\ idx.value < Len(acc.triples)
        THEN IF kind = "deprecated"
             THEN [ acc EXCEPT
                      !.triples[idx.value + 1].status = DEPRECATED,
                      !.deprecated_triples = Append(@, idx.value + 1),
                      !.deprecated_count = @ + 1 ]
             ELSE IF kind = "needs_update"
             THEN [ acc EXCEPT
                      !.triples[idx.value + 1].status = NEEDS_REVIEW,
                      !.updated_count = @ + 1 ]
             ELSE acc
        ELSE acc

\* ApplyImpact, but 'needs_update' puts the triple back to ACTIVE
ApplyImpactReactivating(acc, impact, version) ==
    LET idx == Get(impact, "triple_index", [ type |-> "int", value |-> -1 ])
        kind == Get(impact, "impact", "")
    IN  IF idx.type # "int" THEN [ acc EXCEPT !.raised = TRUE ]
        ELSE IF 0 <= idx.value /\ idx.value < Len(acc.triples)
        THEN IF kind = "deprecated"
             THEN [ acc EXCEPT
                      !.triples[idx.value + 1].status = DEPRECATED,
                      !.triples[idx.value + 1].deprecated_version = version,
                      !.deprecated_triples = Append(@, idx.value + 1),
                      !.deprecated_count = @ + 1 ]
             ELSE IF kind = "needs_update"
             THEN [ acc EXCEPT
                      !.triples[idx.value + 1].status = ACTIVE,
                      !.updated_count = @ + 1 ]
             ELSE acc
        ELSE acc

\* lines 1808-1820: one entry of the affected list.  acc carries the
\* triples, the deprecated report, both counters, and whether the loop
\* raised (the comparison 0 <= idx raises TypeError when idx is no number).
ApplyImpact(acc, impact, version) ==
    LET idx == Get(impact, "triple_index", [ type |-> "int", value |-> -1 ])
        kind == Get(impact, "impact", "")
    IN  IF idx.type # "int" THEN [ acc EXCEPT !.raised = TRUE ]
        ELSE IF 0 <= idx.value /\ idx.value < Len(acc.triples)
        THEN IF kind = "deprecated"
             THEN [ acc EXCEPT
                      !.triples[idx.value + 1].status = DEPRECATED,
                      !.triples[idx.value + 1].deprecated_version = version,
                      !.deprecated_triples = Append(@, idx.value + 1),
                      !.deprecated_count = @ + 1 ]
             ELSE IF kind = "needs_update"
             THEN [ acc EXCEPT
                      !.triples[idx.value + 1].status = NEEDS_REVIEW,
                      !.updated_count = @ + 1 ]
             ELSE acc
        ELSE acc

\* lines 1807-1820: the loop over the affected list, left when an entry raises
RECURSIVE ApplyImpacts(_, _, _)
ApplyImpacts(affected, version, acc) ==
    IF affected = << >> \/ acc.raised THEN acc
    ELSE ApplyImpacts(Tail(affected), version,
                      ApplyImpact(acc, Head(affected), version))

\* SynthesizeTriples, but a 'removed' record always gets its replaced_by triple
SynthesizeTriplesAlwaysReplaced(change, version, software) ==
    IF change.change_type = "added"
    THEN << UsageKnowledgeTriple(change.entity_name, INTRODUCED_IN, version,
                                 change.entity_type, VERSION, version,
                                 version \o << "+" >>, 95, 0, software) >>
    ELSE IF change.change_type = "removed"
    THEN << UsageKnowledgeTriple(change.entity_name, REMOVED_IN, version,
                                 change.entity_type, VERSION, EmptyStr,
                                 EmptyStr, 95, 0, software) >>
         \o (IF TRUE
             THEN << UsageKnowledgeTriple(change.entity_name, REPLACED_BY,
                                          change.new_value, change.entity_type,
                                          change.entity_type, EmptyStr, EmptyStr,
                                          90, 0, software) >>
             ELSE << >>)
    ELSE IF change.change_type = "moved"
    THEN << UsageKnowledgeTriple(change.entity_name, MOVED_TO, change.new_value,
                                 change.entity_type, UI_ELEMENT, version,
                                 EmptyStr, 90, 0, software),
            UsageKnowledgeTriple(change.entity_name, LOCATED_IN, change.new_value,
                                 change.entity_type, UI_ELEMENT, version,
                                 version \o << "+" >>, 90, 0, software) >>
    ELSE IF change.change_type = "renamed"
    THEN << UsageKnowledgeTriple(
                IF change.old_value # EmptyStr THEN change.old_value
                                               ELSE change.entity_name,
                RENAMED_TO, change.new_value, change.entity_type,
                change.entity_type, version, EmptyStr, 95, 0, software) >>
    ELSE << >>

\* SynthesizeTriples, but an 'added' record's triple gets no valid range
SynthesizeTriplesUnranged(change, version, software) ==
    IF change.change_type = "added"
    THEN << UsageKnowledgeTriple(change.entity_name, INTRODUCED_IN, version,
                                 change.entity_type, VERSION, version,
                                 EmptyStr, 95, 0, software) >>
    ELSE IF change.change_type = "removed"
    THEN << UsageKnowledgeTriple(change.entity_name, REMOVED_IN, version,
                                 change.entity_type, VERSION, EmptyStr,
                                 EmptyStr, 95, 0, software) >>
         \o (IF change.new_value # EmptyStr
             THEN << UsageKnowledgeTriple(change.entity_name, REPLACED_BY,
                                          change.new_value, change.entity_type,
                                          change.entity_type, EmptyStr, EmptyStr,
                                          90, 0, software) >>
             ELSE << >>)
    ELSE IF change.change_type = "moved"
    THEN << UsageKnowledgeTriple(change.entity_name, MOVED_TO, change.new_value,
                                 change.entity_type, UI_ELEMENT, version,
                                 EmptyStr, 90, 0, software),
            UsageKnowledgeTriple(change.entity_name, LOCATED_IN, change.new_value,
                                 change.entity_type, UI_ELEMENT, version,
                                 version \o << "+" >>, 90, 0, software) >>
    ELSE IF change.change_type = "renamed"
    THEN << UsageKnowledgeTriple(
                IF change.old_value # EmptyStr THEN change.old_value
                                               ELSE change.entity_name,
                RENAMED_TO, change.new_value, change.entity_type,
                change.entity_type, version, EmptyStr, 95, 0, software) >>
    ELSE << >>

\* SynthesizeTriples, but a 'moved' record's moved_to triple gets the valid
\* range as well
SynthesizeTriplesBothRanged(change, version, software) ==
    IF change.change_type = "added"
    THEN << UsageKnowledgeTriple(change.entity_name, INTRODUCED_IN, version,
                                 change.entity_type, VERSION, version,
                                 version \o << "+" >>, 95, 0, software) >>
    ELSE IF change.change_type = "removed"
    THEN << UsageKnowledgeTriple(change.entity_name, REMOVED_IN, version,
                                 change.entity_type, VERSION, EmptyStr,
                                 EmptyStr, 95, 0, software) >>
         \o (IF change.new_value # EmptyStr
             THEN << UsageKnowledgeTriple(change.entity_name, REPLACED_BY,
                                          change.new_value, change.entity_type,
                                          change.entity_type, EmptyStr, EmptyStr,
                                          90, 0, software) >>
             ELSE << >>)
    ELSE IF change.change_type = "moved"
    THEN << UsageKnowledgeTriple(change.entity_name, MOVED_TO, change.new_value,
                                 change.entity_type, UI_ELEMENT, version,
                                 version \o << "+" >>, 90, 0, software),
            UsageKnowledgeTriple(change.entity_name, LOCATED_IN, change.new_value,
                                 change.entity_type, UI_ELEMENT, version,
                                 version \o << "+" >>, 90, 0, software) >>
    ELSE IF change.change_type = "renamed"
    THEN << UsageKnowledgeTriple(
                IF change.old_value # EmptyStr THEN change.old_value
                                               ELSE change.entity_name,
                RENAMED_TO, change.new_value, change.entity_type,
                change.entity_type, version, EmptyStr, 95, 0, software) >>
    ELSE << >>

\* lines 1829-1913: the triples synthesized for one change record
SynthesizeTriples(change, version, software) ==
    IF change.change_type = "added"
    THEN << UsageKnowledgeTriple(change.entity_name, INTRODUCED_IN, version,
                                 change.entity_type, VERSION, version,
                                 version \o << "+" >>, 95, 0, software) >>
    ELSE IF change.change_type = "removed"
    THEN << UsageKnowledgeTriple(change.entity_name, REMOVED_IN, version,
                                 change.entity_type, VERSION, EmptyStr,
                                 EmptyStr, 95, 0, software) >>
         \o (IF change.new_value # EmptyStr
             THEN << UsageKnowledgeTriple(change.entity_name, REPLACED_BY,
                                          change.new_value, change.entity_type,
                                          change.entity_type, EmptyStr, EmptyStr,
                                          90, 0, software) >>
             ELSE << >>)
    ELSE IF change.change_type = "moved"
    THEN << UsageKnowledgeTriple(change.entity_name, MOVED_TO, change.new_value,
                                 change.entity_type, UI_ELEMENT, version,
                                 EmptyStr, 90, 0, software),
            UsageKnowledgeTriple(change.entity_name, LOCATED_IN, change.new_value,
                                 change.entity_type, UI_ELEMENT, version,
                                 version \o << "+" >>, 90, 0, software) >>
    ELSE IF change.change_type = "renamed"
    THEN << UsageKnowledgeTriple(
                IF change.old_value # EmptyStr THEN change.old_value
                                               ELSE change.entity_name,
                RENAMED_TO, change.new_value, change.entity_type,
                change.entity_type, version, EmptyStr, 95, 0, software) >>
    ELSE << >>

\* lines 1831-1839: the entity an 'added' change record creates
AddedEntity(change, version, software) ==
    SoftwareEntity(TypedEntityId(change.entity_type, change.entity_name),
                   change.entity_name, change.entity_type, change.description,
                   version, software)

\* lines 1731 and 1839: self.knowledge_graph["entities"][entity.entity_id] = entity
RegisterEntity(entities, entity) == DictSet(entities, entity.entity_id, entity)

\* lines 1828-1913: the loop over the changes.  acc carries the entity
\* registry and new_triples.
RECURSIVE ApplyChanges(_, _, _, _)
ApplyChanges(changes, version, software, acc) ==
    IF changes = << >> THEN acc
    ELSE LET change == Head(changes)
             entities == IF change.change_type = "added"
                         THEN RegisterEntity(acc.entities,
                                             AddedEntity(change, version, software))
                         ELSE acc.entities
         IN  ApplyChanges(Tail(changes), version, software,
                 [ entities |-> entities,
                   new_triples |-> acc.new_triples
                                   \o SynthesizeTriples(change, version, software) ])

\* process_update_document, but the synthesized triples are put in front of
\* the stored ones
process_update_documentPrepending(self, version_arg, detect_resp, impact_resp) ==
    LET kg == self.knowledge_graph
        detected == detect_changes(detect_resp)
        changes == detected.changes
        version == IF version_arg # EmptyStr THEN version_arg ELSE detected.version
        versions == IF version # EmptyStr THEN kg.versions \cup { version }
                                          ELSE kg.versions
        affected == analyze_impact(changes, kg.triples, impact_resp)
        imp == ApplyImpacts(affected, version,
                   [ triples |-> kg.triples,
                     deprecated_triples |-> self.intermediate.deprecated_triples,
                     deprecated_count |-> 0, updated_count |-> 0,
                     raised |-> FALSE ])
        syn == ApplyChanges(changes, version, kg.software,
                   [ entities |-> kg.entities, new_triples |-> << >> ])
        im1 == [ self.intermediate EXCEPT
                   !.deprecated_triples = imp.deprecated_triples ]
    IN  IF imp.raised
        THEN [ self |-> [ knowledge_graph |->
                              [ kg EXCEPT !.versions = versions,
                                          !.triples = imp.triples ],
                          intermediate |-> im1 ],
               changes |-> changes,
               ret |-> [ raised |-> TRUE ] ]
        ELSE [ self |-> [ knowledge_graph |->
                              [ kg EXCEPT !.versions = versions,
                                          !.entities = syn.entities,
                                          !.triples = syn.new_triples \o imp.triples ],
                          intermediate |-> im1 ],
               changes |-> changes,
               ret |-> [ raised |-> FALSE,
                         changes_detected |-> Len(changes),
                         triples_deprecated |-> imp.deprecated_count,
                         triples_flagged |-> imp.updated_count,
                         triples_added |-> Len(syn.new_triples),
                         version |-> version ] ]

\* KARMA.process_update_document(text, version): the pipeline object after
\* the call, what the call returned (ret.raised: it raised instead), and
\* the change list of the run (which the code keeps in intermediate.changes
\* until the next maintenance run).
process_update_document(self, version_arg, detect_resp, impact_resp) ==
    LET kg == self.knowledge_graph
        detected == detect_changes(detect_resp)
        changes == detected.changes
        version == IF version_arg # EmptyStr THEN version_arg ELSE detected.version
        versions == IF version # EmptyStr THEN kg.versions \cup { version }
                                          ELSE kg.versions
        affected == analyze_impact(changes, kg.triples, impact_resp)
        imp == ApplyImpacts(affected, version,
                   [ triples |-> kg.triples,
                     deprecated_triples |-> self.intermediate.deprecated_triples,
                     deprecated_count |-> 0, updated_count |-> 0,
                     raised |-> FALSE ])
        syn == ApplyChanges(changes, version, kg.software,
                   [ entities |-> kg.entities, new_triples |-> << >> ])
        im1 == [ self.intermediate EXCEPT
                   !.deprecated_triples = imp.deprecated_triples ]
    IN  IF imp.raised
        THEN [ self |-> [ knowledge_graph |->
                              [ kg EXCEPT !.versions = versions,
                                          !.triples = imp.triples ],
                          intermediate |-> im1 ],
               changes |-> changes,
               ret |-> [ raised |-> TRUE ] ]
        ELSE [ self |-> [ knowledge_graph |->
                              [ kg EXCEPT !.versions = versions,
                                          !.entities = syn.entities,
                                          !.triples = imp.triples \o syn.new_triples ],
                          intermediate |-> im1 ],
               changes |-> changes,
               ret |-> [ raised |-> FALSE,
                         changes_detected |-> Len(changes),
                         triples_deprecated |-> imp.deprecated_count,
                         triples_flagged |-> imp.updated_count,
                         triples_added |-> Len(syn.new_triples),
                         version |-> version ] ]

\* lines 1654-1659: deduplicate entities by name.lower(), the first wins
RECURSIVE DedupEntities(_, _)
DedupEntities(entities, seen) ==
    IF entities = << >> THEN << >>
    ELSE LET e == Head(entities)
             key == Lower(e.name)
         IN  IF key \notin seen
             THEN << e >> \o DedupEntities(Tail(entities), seen \cup { key })
             ELSE DedupEntities(Tail(entities), seen)

\* StepTriples, but step_order counts from 0 (enumerate's own index)
RECURSIVE StepTriplesFromZero(_, _, _)
StepTriplesFromZero(proc, i, software) ==
    IF i > Len(proc.steps) THEN << >>
    ELSE << UsageKnowledgeTriple(proc.steps[i], PART_OF, proc.name, STEP,
                                 PROCEDURE, EmptyStr, EmptyStr, 95, i - 1, software) >>
         \o (IF i > 1
             THEN << UsageKnowledgeTriple(proc.steps[i - 1], NEXT_STEP,
                                          proc.steps[i], STEP, STEP, EmptyStr,
                                          EmptyStr, 95, 0, software) >>
             ELSE << >>)
         \o StepTriplesFromZero(proc, i + 1, software)

\* lines 1690-1711: the triples of the steps of one procedure, from step i on
RECURSIVE StepTriples(_, _, _)
StepTriples(proc, i, software) ==
    IF i > Len(proc.steps) THEN << >>
    ELSE << UsageKnowledgeTriple(proc.steps[i], PART_OF, proc.name, STEP,
                                 PROCEDURE, EmptyStr, EmptyStr, 95, i, software) >>
         \o (IF i > 1
             THEN << UsageKnowledgeTriple(proc.steps[i - 1], NEXT_STEP,
                                          proc.steps[i], STEP, STEP, EmptyStr,
                                          EmptyStr, 95, 0, software) >>
             ELSE << >>)
         \o StepTriples(proc, i + 1, software)

\* lines 1676-1711: the procedure-derived triples of one procedure
ProcedureTriples(proc, software) ==
    (IF proc.outcome # EmptyStr
     THEN << UsageKnowledgeTriple(proc.name, ACHIEVES, proc.outcome, PROCEDURE,
                                  OUTCOME, EmptyStr, EmptyStr, 90, 0, software) >>
     ELSE << >>)
    \o StepTriples(proc, 1, software)

\* list.extend, once per element of lists: the concatenation of the lists
RECURSIVE Extend(_)
Extend(lists) ==
    IF lists = << >> THEN << >> ELSE Head(lists) \o Extend(Tail(lists))

\* lines 1730-1731: for entity in all_entities:
\*     self.knowledge_graph["entities"][entity.entity_id] = entity
RECURSIVE StoreEntities(_, _)
StoreEntities(entities, all_entities) ==
    IF all_entities = << >> THEN entities
    ELSE StoreEntities(RegisterEntity(entities, Head(all_entities)),
                       Tail(all_entities))

\* lines 1733-1734: for proc in all_procedures:
\*     self.knowledge_graph["procedures"][proc.procedure_id] = proc
RECURSIVE StoreProcedures(_, _)
StoreProcedures(procedures, all_procedures) ==
    IF all_procedures = << >> THEN procedures
    ELSE StoreProcedures(DictSet(procedures, Head(all_procedures).procedure_id,
                                 Head(all_procedures)),
                         Tail(all_procedures))

\* lines 1609: DocumentType(value) raises ValueError off the enumeration
DocumentTypeRaises(value) == value \notin DocumentType

\* KARMA.process_document(source): the pipeline object after the call, what
\* the call returned (ret.raised: it raised instead) and the change list of
\* the run.  segs are the responses to the per-segment calls, one entry per
\* segment.
process_document(self, cls_resp, segs, ver_resp, detect_resp, impact_resp) ==
    LET kg == self.knowledge_graph
        classification == classify_document(cls_resp)
        software == classification.software
        version == classification.version
        self1 == [ self EXCEPT
                     !.knowledge_graph.software = software,
                     !.knowledge_graph.versions =
                         IF version # EmptyStr THEN @ \cup { version } ELSE @ ]
        extracted ==
            Extend([ i \in 1..Len(segs) |->
                       extract_ui_elements(segs[i].ui, software)
                       \o extract_features(segs[i].features, software) ])
        all_procedures ==
            Extend([ i \in 1..Len(segs) |->
                       extract_procedures(segs[i].procedures, software) ])
        all_entities == DedupEntities(extracted, { })
        all_triples ==
            Extend([ i \in 1..Len(segs) |->
                       extract_relationships(segs[i].relationships, all_entities) ])
            \o Extend([ i \in 1..Len(all_procedures) |->
                          ProcedureTriples(all_procedures[i], software) ])
        resolved == resolve_versions(all_triples, ver_resp, version)
        new_triples == integrate_triples(resolved, kg.triples).to_add
    IN  IF DocumentTypeRaises(classification.document_type)
        THEN [ self |-> self, changes |-> << >>, ret |-> [ raised |-> TRUE ] ]
        ELSE IF classification.document_type = RELEASE_NOTES
        THEN process_update_document(self1, version, detect_resp, impact_resp)
        ELSE [ self |->
                 [ self1 EXCEPT
                     !.knowledge_graph.entities = StoreEntities(@, all_entities),
                     !.knowledge_graph.procedures =
                         StoreProcedures(@, all_procedures),
                     !.knowledge_graph.triples = @ \o new_triples ],
               changes |-> << >>,
               ret |-> [ raised |-> FALSE,
                         entities |-> Len(all_entities),
                         procedures |-> Len(all_procedures),
                         triples |-> Len(new_triples),
                         software |-> software,
                         version |-> version ] ]

\* RangeMatches, but a "V1-V2" range excludes its upper end
RangeMatchesExclusive(range, version) ==
    IF range = EmptyStr \/ range = RangeUnknown THEN TRUE
    ELSE IF HasChar(range, "+") THEN StrGE(version, RemoveChar(range, "+"))
    ELSE IF HasChar(range, "-")
    THEN LET parts == Split(range, "-")
         IN  Len(parts) = 2 /\ StrLE(parts[1], version)
             /\ StrLE(version, parts[2]) /\ version # parts[2]
    ELSE FALSE

\* lines 1948-1957: whether get_knowledge_for_version keeps an ACTIVE triple
\* of this valid_version_range for the queried version
RangeMatches(range, version) ==
    IF range = EmptyStr \/ range = RangeUnknown THEN TRUE
    ELSE IF HasChar(range, "+") THEN StrGE(version, RemoveChar(range, "+"))
    ELSE IF HasChar(range, "-")
    THEN LET parts == Split(range, "-")
         IN  Len(parts) = 2 /\ StrLE(parts[1], version) /\ StrLE(version, parts[2])
    ELSE FALSE

\* KARMA.get_knowledge_for_version: the triples returned, as store positions
RECURSIVE ValidTriples(_, _, _)
ValidTriples(triples, version, i) ==
    IF i > Len(triples) THEN << >>
    ELSE (IF triples[i].status = ACTIVE
             /\ RangeMatches(triples[i].valid_version_range, version)
          THEN << i >> ELSE << >>)
         \o ValidTriples(triples, version, i + 1)

get_knowledge_for_version(self, version) ==
    ValidTriples(self.knowledge_graph.triples, version, 1)

\* KARMA.get_outdated_knowledge: the triples returned, as store positions
RECURSIVE OutdatedTriples(_, _)
OutdatedTriples(triples, i) ==
    IF i > Len(triples) THEN << >>
    ELSE (IF triples[i].status \in { DEPRECATED, NEEDS_REVIEW }
          THEN << i >> ELSE << >>)
         \o OutdatedTriples(triples, i + 1)

get_outdated_knowledge(self) == OutdatedTriples(self.knowledge_graph.triples, 1)

\* the number of triples of a status
CountStatus(triples, status) ==
    Cardinality({ i \in 1..Len(triples) : triples[i].status = status })

\* KARMA.export_knowledge_graph: the statistics of the exported document
ExportStatistics(self) ==
    LET kg == self.knowledge_graph
    IN  [ total_entities |-> Cardinality(DOMAIN kg.entities),
          total_procedures |-> Cardinality(DOMAIN kg.procedures),
          total_triples |-> Len(kg.triples),
          active_triples |-> CountStatus(kg.triples, ACTIVE),
          deprecated_triples |-> CountStatus(kg.triples, DEPRECATED) ]

(***************************************************************************)
(* Export to a JSON file and re-import (store_knowledge_graph.py).  The    *)
(* dataclass fields the pipeline never sets (source_document, parent_path, *)
(* aliases, ...) are left out of the exported objects, as they are left    *)
(* out of the model's triples, entities and procedures.                    *)
(***************************************************************************)

\* list(d.values()): the values of a dict, each once
RECURSIVE Values(_)
Values(d) ==
    IF DOMAIN d = { } THEN << >>
    ELSE LET k == CHOOSE x \in DOMAIN d : TRUE
         IN  << d[k] >> \o Values([ x \in (DOMAIN d) \ { k } |-> d[x] ])

\* list(s): the elements of a set, each once
RECURSIVE ListOf(_)
ListOf(s) ==
    IF s = { } THEN << >>
    ELSE LET e == CHOOSE x \in s : TRUE IN << e >> \o ListOf(s \ { e })

\* to_dict, but the status is written as the member's name, not its value
to_dictStatusName(t) ==
    [ head |-> t.head, relation |-> t.relation, tail |-> t.tail,
      head_type |-> t.head_type, tail_type |-> t.tail_type,
      introduced_version |-> t.introduced_version,
      deprecated_version |-> t.deprecated_version,
      valid_version_range |-> t.valid_version_range,
      confidence |-> t.confidence, step_order |-> t.step_order,
      status |-> IF t.status = ACTIVE THEN "TripleStatus.ACTIVE"
                 ELSE IF t.status = DEPRECATED THEN "TripleStatus.DEPRECATED"
                 ELSE "TripleStatus.NEEDS_REVIEW",
      software |-> t.software ]

\* UsageKnowledgeTriple.to_dict: the enum members by their values
to_dict(t) ==
    [ head |-> t.head, relation |-> t.relation, tail |-> t.tail,
      head_type |-> t.head_type, tail_type |-> t.tail_type,
      introduced_version |-> t.introduced_version,
      deprecated_version |-> t.deprecated_version,
      valid_version_range |-> t.valid_version_range,
      confidence |-> t.confidence, step_order |-> t.step_order,
      status |-> t.status, software |-> t.software ]

\* KARMA.export_knowledge_graph: kg_export
export_knowledge_graph(self) ==
    LET kg == self.knowledge_graph
    IN  [ software |-> kg.software,
          versions |-> ListOf(kg.versions),
          entities |-> Values(kg.entities),
          procedures |-> Values(kg.procedures),
          triples |-> [ i \in 1..Len(kg.triples) |-> to_dict(kg.triples[i]) ],
          statistics |-> ExportStatistics(self) ]

\* json.dump of an int >= 0: its decimal digits
RECURSIVE DumpInt(_)
DumpInt(n) == IF n < 10 THEN Digit(n) ELSE DumpInt(n \div 10) \o Digit(n % 10)

\* json.load of the digits of an int
RECURSIVE LoadInt(_)
LoadInt(digits) ==
    IF digits = << >> THEN 0
    ELSE 10 * LoadInt(SubSeq(digits, 1, Len(digits) - 1))
         + (Ord(digits[Len(digits)]) - Ord("0"))

\* the escapes of json.dump inside a string: \" and \\
RECURSIVE Escape(_)
Escape(s) ==
    IF s = << >> THEN << >>
    ELSE (IF Head(s) \in { "\"", "\\" } THEN << "\\", Head(s) >> ELSE << Head(s) >>)
         \o Escape(Tail(s))

RECURSIVE Unescape(_)
Unescape(s) ==
    IF s = << >> THEN << >>
    ELSE IF Head(s) = "\\" /\ Len(s) >= 2
    THEN << s[2] >> \o Unescape(SubSeq(s, 3, Len(s)))
    ELSE << Head(s) >> \o Unescape(Tail(s))

\* json.dump of a str: quoted and escaped
DumpStr(s) == << "\"" >> \o Escape(s) \o << "\"" >>

\* json.load of a quoted str
LoadStr(text) == Unescape(SubSeq(text, 2, Len(text) - 1))

\* json.dump(kg_export, f, indent=2, default=str): the file, with the names
\* and the numbers of the document as JSON text
json_dump(kg_export) ==
    [ software |-> kg_export.software,
      versions |-> [ i \in 1..Len(kg_export.versions) |-> DumpStr(kg_export.versions[i]) ],
      entities |-> [ i \in 1..Len(kg_export.entities) |->
                       [ kg_export.entities[i] EXCEPT !.entity_id = DumpStr(@),
                                                      !.name = DumpStr(@) ] ],
      procedures |-> [ i \in 1..Len(kg_export.procedures) |->
                         [ kg_export.procedures[i] EXCEPT !.procedure_id = DumpStr(@),
                                                          !.name = DumpStr(@) ] ],
      triples |-> [ i \in 1..Len(kg_export.triples) |->
                      [ kg_export.triples[i] EXCEPT !.head = DumpStr(@),
                                                    !.tail = DumpStr(@),
                                                    !.step_order = DumpInt(@),
                                                    !.confidence = DumpInt(@) ] ],
      statistics |-> [ k \in DOMAIN kg_export.statistics |->
                         DumpInt(kg_export.statistics[k]) ] ]

\* KnowledgeGraphStorage.load_from_json: json.load of the file
load_from_json(file) ==
    [ software |-> file.software,
      versions |-> [ i \in 1..Len(file.versions) |-> LoadStr(file.versions[i]) ],
      entities |-> [ i \in 1..Len(file.entities) |->
                       [ file.entities[i] EXCEPT !.entity_id = LoadStr(@),
                                                 !.name = LoadStr(@) ] ],
      procedures |-> [ i \in 1..Len(file.procedures) |->
                         [ file.procedures[i] EXCEPT !.procedure_id = LoadStr(@),
                                                     !.name = LoadStr(@) ] ],
      triples |-> [ i \in 1..Len(file.triples) |->
                      [ file.triples[i] EXCEPT !.head = LoadStr(@),
                                               !.tail = LoadStr(@),
                                               !.step_order = LoadInt(@),
                                               !.confidence = LoadInt(@) ] ],
      statistics |-> [ k \in DOMAIN file.statistics |-> LoadInt(file.statistics[k]) ] ]

(***************************************************************************)
(* Bounds and the inputs the model draws from                              *)
(***************************************************************************)

\* the longest Triple Store the model lets a run produce
MaxTriples == 3
\* the longest change list of one DetectChanges response
MaxChanges == 2
\* the longest affected list of one AnalyzeImpact response
MaxImpacts == 1
\* the longest deprecated-triples report the model lets a run produce
MaxReport == 2
\* integrate_triples on its own: the longest new batch and existing list
MaxBatch == 2
MaxExisting == 1
\* get_knowledge_for_version on its own: the longest store
MaxStore == 2
\* the derivation of a procedure's triples on its own: the most steps
MaxSteps == 3
\* the impact loop on its own: the longest affected list
MaxAffected == 2
\* the synthesis loop on its own: the largest store a run starts from
MaxSynthesisStore == 1
\* the segmentation on its own: the longest text
MaxText == 5

\* the sequences over S of length at most n
SeqUpTo(S, n) == UNION { [ 1..k -> S ] : k \in 0..n }

NameA == << "A" >>
NameLowerA == << "a" >>
NameB == << "B" >>
NameLowerB == << "b" >>
REQUIRES_UPPER == << "R", "E", "Q", "U", "I", "R", "E", "S" >>

V9 == << "9" >>
V10 == << "1", "0" >>
V2 == << "2" >>
NotAvailable == << "N", "/", "A" >>
Range9To10 == << "9", "-", "1", "0" >>
Range2To9 == << "2", "-", "9" >>
Range9Plus == << "9", "+" >>
Range10Plus == << "1", "0", "+" >>

Error == [ kind |-> "error" ]
Unparseable == [ kind |-> "unparseable" ]

\* Classify: the call fails, or returns a payload; "guide" is a
\* document_type outside the enumerated set
ClassifyPayloads ==
    { [ document_type |-> "tutorial", software |-> "Unknown", version |-> NotAvailable ],
      [ document_type |-> RELEASE_NOTES, software |-> "Unknown", version |-> V9 ],
      [ document_type |-> "guide", software |-> "Unknown", version |-> V9 ] }

ClassifyResponses ==
    { Error } \cup { [ kind |-> "json", payload |-> c ] : c \in ClassifyPayloads }

UIElementsA == << [ name |-> NameA, description |-> "d1" ] >>
UIElementsLowerA == << [ name |-> NameLowerA, description |-> "d2" ] >>
FeaturesA == << [ name |-> NameA, type |-> FEATURE, description |-> "d2" ] >>
ProceduresB == << [ name |-> NameB, steps |-> << NameA >>, outcome |-> EmptyStr ] >>
RelationshipsA ==
    << [ head |-> NameA, relation |-> REQUIRES, tail |-> NameB, confidence |-> 50 ] >>
RelationshipsLowerA ==
    << [ head |-> NameLowerA, relation |-> REQUIRES_UPPER, tail |-> NameB,
         confidence |-> 50 ] >>

\* the responses to the four calls made for one segment
SegmentResponses ==
    { [ ui |-> Error, features |-> Error, procedures |-> Error,
        relationships |-> Unparseable ],
      [ ui |-> [ kind |-> "json", ui_elements |-> UIElementsA ],
        features |-> Unparseable, procedures |-> Unparseable,
        relationships |-> [ kind |-> "json", relationships |-> RelationshipsA ] ],
      [ ui |-> [ kind |-> "json", ui_elements |-> UIElementsLowerA ],
        features |-> Error, procedures |-> Error,
        relationships |-> [ kind |-> "json", relationships |-> RelationshipsLowerA ] ],
      [ ui |-> Unparseable,
        features |-> [ kind |-> "json", entities |-> FeaturesA ],
        procedures |-> [ kind |-> "json", procedures |-> ProceduresB ],
        relationships |-> Error ] }

VersionResponses ==
    { Error,
      [ kind |-> "json",
        versions |-> << [ introduced_version |-> V9, valid_range |-> Range9To10 ] >> ] }

ChangeInputs ==
    { [ change_type |-> "added", entity_name |-> NameA, entity_type |-> FEATURE,
        old_value |-> EmptyStr, new_value |-> EmptyStr, description |-> "d1" ],
      [ change_type |-> "added", entity_name |-> NameLowerA, entity_type |-> UI_ELEMENT,
        old_value |-> EmptyStr, new_value |-> EmptyStr, description |-> "d2" ],
      [ change_type |-> "moved", entity_name |-> NameA, entity_type |-> UI_ELEMENT,
        old_value |-> EmptyStr, new_value |-> NameB, description |-> "d1" ] }

\* two 'added' records of one type whose names differ in letter case only
MaintenanceChangeInputs ==
    { [ change_type |-> "added", entity_name |-> NameA, entity_type |-> FEATURE,
        old_value |-> EmptyStr, new_value |-> EmptyStr, description |-> "d1" ],
      [ change_type |-> "added", entity_name |-> NameLowerA, entity_type |-> FEATURE,
        old_value |-> EmptyStr, new_value |-> EmptyStr, description |-> "d2" ],
      [ change_type |-> "moved", entity_name |-> NameA, entity_type |-> UI_ELEMENT,
        old_value |-> EmptyStr, new_value |-> NameB, description |-> "d1" ] }

\* DetectChanges: the call fails, or returns the version and a change list
DetectResponses(version, inputs) ==
    { Error }
    \cup { [ kind |-> "json", version |-> version, changes |-> cs ] :
             cs \in SeqUpTo(inputs, MaxChanges) }

\* a JSON value with its type
JsonInt(n) == [ type |-> "int", value |-> n ]
JsonStr(s) == [ type |-> "str", value |-> s ]

ImpactInputs ==
    { [ triple_index |-> JsonInt(0), impact |-> "deprecated" ],
      [ triple_index |-> JsonInt(0), impact |-> "needs_update" ],
      [ triple_index |-> JsonStr(<< "0" >>), impact |-> "deprecated" ] }

\* AnalyzeImpact: the call fails, or returns an affected list
ImpactResponses ==
    { Error }
    \cup { [ kind |-> "json", affected_triples |-> a ] :
             a \in SeqUpTo(ImpactInputs, MaxImpacts) \ { << >> } }

\* the versions the queries ask for
QueryVersions == { V9, V10 }
\* and on a store of its own
StoreQueryVersions == { V9, V10, V2 }

(***************************************************************************)
(* The program                                                             *)
(***************************************************************************)

VARIABLES
    self,   \* the KARMA object: knowledge_graph and intermediate
    ret,    \* the last call on it and what it returned
    call    \* a call of one function on its own: its inputs and its result

vars == << self, ret, call >>

EmptyDict == [ k \in { } |-> k ]

\* KARMA.__init__
NewKARMA ==
    [ knowledge_graph |->
          [ entities |-> EmptyDict, triples |-> << >>, procedures |-> EmptyDict,
            software |-> "", versions |-> { } ],
      intermediate |-> [ deprecated_triples |-> << >> ] ]

NoCall == [ op |-> "none" ]

Init ==
    /\ self = NewKARMA
    /\ ret = NoCall
    /\ call = NoCall

\* the model keeps the store and the report within its bounds
WithinBounds(s) ==
    /\ Len(s.knowledge_graph.triples) <= MaxTriples
    /\ Len(s.intermediate.deprecated_triples) <= MaxReport

\* the AnalyzeImpact call is made only with changes and existing triples
ImpactResponsesFor(s, detect_resp) ==
    IF detect_changes(detect_resp).changes = << >> \/ s.knowledge_graph.triples = << >>
    THEN { Error }
    ELSE ImpactResponses

\* the call returns (or raises): the object and the returned value change;
\* with record, the change list of the run is kept beside them
Returns(op, out, record) ==
    /\ WithinBounds(out.self)
    /\ self' = out.self
    /\ ret' = [ op |-> op, ret |-> out.ret ]
    /\ call' = IF record THEN [ op |-> "changes", changes |-> out.changes ] ELSE call

\* process_document on a document that is not classified as release notes:
\* the call raises on the document type, or goes through the ingest stages
ProcessDocument ==
    \E cls \in ClassifyResponses :
        /\ classify_document(cls).document_type # RELEASE_NOTES
        /\ IF DocumentTypeRaises(classify_document(cls).document_type)
           THEN Returns("process_document",
                        process_document(self, cls, << >>, Error, Error, Error), FALSE)
           ELSE \E sg \in SegmentResponses, ver \in VersionResponses :
                    LET out == process_document(self, cls, << sg >>, ver, Error, Error)
                    IN  Returns("process_document", out, FALSE)

\* process_document on a document classified as release notes
ReleaseNotes(detect_resps, record) ==
    \E cls \in ClassifyResponses, det \in detect_resps :
        /\ classify_document(cls).document_type = RELEASE_NOTES
        /\ \E imp \in ImpactResponsesFor(self, det) :
               LET out == process_document(self, cls, << >>, Error, det, imp)
               IN  Returns("process_document", out, record)

\* a direct call of process_update_document(text, version)
UpdateDocument(version_args, detect_resps, record) ==
    \E v \in version_args, det \in detect_resps :
        \E imp \in ImpactResponsesFor(self, det) :
            LET out == process_update_document(self, v, det, imp)
            IN  Returns("process_update_document", out, record)

ProcessReleaseNotes == ReleaseNotes(DetectResponses(V9, ChangeInputs), FALSE)

\* the call of the command line: process_update_document(text)
ProcessUpdateDocument ==
    UpdateDocument({ EmptyStr }, DetectResponses(V9, ChangeInputs), FALSE)

GetOutdatedKnowledge ==
    /\ ret' = [ op |-> "get_outdated_knowledge",
                ret |-> get_outdated_knowledge(self) ]
    /\ UNCHANGED << self, call >>

GetKnowledgeForVersion ==
    \E v \in QueryVersions :
        /\ ret' = [ op |-> "get_knowledge_for_version", version |-> v,
                    ret |-> get_knowledge_for_version(self, v) ]
        /\ UNCHANGED << self, call >>

ExportKnowledgeGraph ==
    /\ ret' = [ op |-> "export_knowledge_graph",
                ret |-> [ statistics |-> ExportStatistics(self) ] ]
    /\ UNCHANGED << self, call >>

Next ==
    \/ ProcessDocument
    \/ ProcessReleaseNotes
    \/ ProcessUpdateDocument
    \/ GetOutdatedKnowledge
    \/ GetKnowledgeForVersion
    \/ ExportKnowledgeGraph

\* ingest runs, maintenance runs and queries on one pipeline object
Spec == Init /\ [][Next]_vars

(***************************************************************************)
(* Maintenance runs only, each given version 9 (as argument, or by the     *)
(* classification) while DetectChanges reports version 10.  The change     *)
(* list of the last run is kept in call                                    *)
(***************************************************************************)

MaintenanceReleaseNotes ==
    ReleaseNotes(DetectResponses(V10, MaintenanceChangeInputs), TRUE)

MaintenanceUpdateDocument ==
    UpdateDocument({ V9 }, DetectResponses(V10, MaintenanceChangeInputs), TRUE)

NextMaintenance ==
    \/ MaintenanceReleaseNotes
    \/ MaintenanceUpdateDocument

SpecMaintenance == Init /\ [][NextMaintenance]_vars

(***************************************************************************)
(* integrate_triples on its own                                            *)
(***************************************************************************)

\* triples as relationship extraction makes them
IntegrateTriples ==
    { UsageKnowledgeTriple(h, r, t, UNKNOWN, UNKNOWN, EmptyStr, EmptyStr, 50, 0, "") :
        h \in { NameA, NameLowerA }, r \in { REQUIRES, REQUIRES_UPPER },
        t \in { NameB, NameLowerB } }

InitIntegrate ==
    /\ self = NewKARMA
    /\ ret = NoCall
    /\ \E n \in SeqUpTo(IntegrateTriples, MaxBatch),
          e \in SeqUpTo(IntegrateTriples, MaxExisting) :
           call = [ op |-> "integrate_triples", done |-> FALSE,
                    new_triples |-> n, existing_triples |-> e ]

IntegrateCall ==
    /\ call.op = "integrate_triples"
    /\ ~call.done
    /\ call' = [ op |-> "integrate_triples", done |-> TRUE,
                 new_triples |-> call.new_triples,
                 existing_triples |-> call.existing_triples,
                 ret |-> integrate_triples(call.new_triples, call.existing_triples) ]
    /\ UNCHANGED << self, ret >>

SpecIntegrate == InitIntegrate /\ [][IntegrateCall]_vars

(***************************************************************************)
(* get_knowledge_for_version on its own                                    *)
(***************************************************************************)

\* the valid ranges of the stored triples: empty (a triple no stage gave a
\* range), "unknown", "V+" and "V1-V2"
QueryRanges ==
    { EmptyStr, RangeUnknown, Range9Plus, Range10Plus, Range9To10, Range2To9 }

QueryHeads == << NameA, NameB, NameLowerA >>

\* the triple at store position i: extracted in an ingest run, resolved to
\* range r, and since then left ACTIVE, deprecated in version 9, or flagged
QueryTriple(i, r, st) ==
    [ UsageKnowledgeTriple(QueryHeads[i], REQUIRES, NameB, UNKNOWN, UNKNOWN,
                           EmptyStr, r, 50, 0, "")
        EXCEPT !.status = st,
               !.deprecated_version = IF st = DEPRECATED THEN V9 ELSE EmptyStr ]

QueryStores ==
    UNION { { [ i \in 1..k |-> QueryTriple(i, rs[i], sts[i]) ] :
                rs \in [ 1..k -> QueryRanges ],
                sts \in [ 1..k -> { ACTIVE, DEPRECATED, NEEDS_REVIEW } ] } :
            k \in 0..MaxStore }

InitQuery ==
    /\ \E triples \in QueryStores :
           self = [ NewKARMA EXCEPT !.knowledge_graph.triples = triples ]
    /\ ret = NoCall
    /\ call = NoCall

QueryCall ==
    /\ call.op = "none"
    /\ \E v \in StoreQueryVersions :
           call' = [ op |-> "get_knowledge_for_version", version |-> v,
                     ret |-> get_knowledge_for_version(self, v) ]
    /\ UNCHANGED << self, ret >>

SpecQuery == InitQuery /\ [][QueryCall]_vars

(***************************************************************************)
(* The derivation of the triples of one procedure, on its own              *)
(***************************************************************************)

\* procedures as extract_procedures makes them: named, with at least one step
ProcedureInputs ==
    { Procedure(ProcedureId(0, name), name, steps, outcome, "Unknown") :
        name \in { NameB, NameLowerB },
        steps \in SeqUpTo({ NameA, NameLowerA, NameB }, MaxSteps) \ { << >> },
        outcome \in { EmptyStr, NameLowerA } }

InitProcedure ==
    /\ self = NewKARMA
    /\ ret = NoCall
    /\ \E proc \in ProcedureInputs :
           call = [ op |-> "procedure_triples", done |-> FALSE, proc |-> proc ]

ProcedureCall ==
    /\ call.op = "procedure_triples"
    /\ ~call.done
    /\ call' = [ op |-> "procedure_triples", done |-> TRUE, proc |-> call.proc,
                 ret |-> ProcedureTriples(call.proc, call.proc.software) ]
    /\ UNCHANGED << self, ret >>

SpecProcedure == InitProcedure /\ [][ProcedureCall]_vars

(***************************************************************************)
(* Runs, each followed or not by an export to a file that is loaded again  *)
(***************************************************************************)

AddedChangeInputs ==
    { [ change_type |-> "added", entity_name |-> NameA, entity_type |-> FEATURE,
        old_value |-> EmptyStr, new_value |-> EmptyStr, description |-> "d1" ] }

ExportUpdateDocument ==
    UpdateDocument({ EmptyStr }, DetectResponses(V9, AddedChangeInputs), FALSE)

\* export_knowledge_graph(path), then load_from_json(path)
ExportAndLoad ==
    /\ ret' = [ op |-> "export_knowledge_graph",
                ret |-> [ statistics |-> ExportStatistics(self) ] ]
    /\ call' = [ op |-> "load_from_json",
                 ret |-> load_from_json(json_dump(export_knowledge_graph(self))) ]
    /\ UNCHANGED self

NextExport ==
    \/ ProcessDocument
    \/ ExportUpdateDocument
    \/ ExportAndLoad

SpecExport == Init /\ [][NextExport]_vars

(***************************************************************************)
(* Maintenance runs with impact entries of every kind: in range, negative, *)
(* past the end of the store, without an index; deprecated, needs_update,  *)
(* unaffected.  The affected list of the last run is kept in call          *)
(***************************************************************************)

\* an index no store of the model reaches
PastEnd == 9

AffectedInputs ==
    { [ triple_index |-> JsonInt(0), impact |-> "deprecated" ],
      [ triple_index |-> JsonInt(0), impact |-> "needs_update" ],
      [ triple_index |-> JsonInt(0), impact |-> "unaffected" ],
      [ triple_index |-> JsonInt(1), impact |-> "deprecated" ],
      [ triple_index |-> JsonInt(1), impact |-> "needs_update" ],
      [ triple_index |-> JsonInt(-1), impact |-> "deprecated" ],
      [ triple_index |-> JsonInt(PastEnd), impact |-> "needs_update" ],
      [ impact |-> "deprecated" ] }

AffectedResponses ==
    { [ kind |-> "json", affected_triples |-> a ] :
        a \in SeqUpTo(AffectedInputs, MaxAffected) }

\* process_update_document(text) on release notes that add one feature
ImpactUpdateDocument ==
    \E det \in DetectResponses(V9, AddedChangeInputs) :
        \E imp \in IF ImpactResponsesFor(self, det) = { Error }
                   THEN { Error } ELSE AffectedResponses :
            LET out == process_update_document(self, EmptyStr, det, imp)
            IN  /\ WithinBounds(out.self)
                /\ self' = out.self
                /\ ret' = [ op |-> "process_update_document", ret |-> out.ret ]
                /\ call' = [ op |-> "affected", changes |-> out.changes,
                             affected |-> analyze_impact(out.changes,
                                                         self.knowledge_graph.triples,
                                                         imp) ]

SpecImpact == Init /\ [][ImpactUpdateDocument]_vars

(***************************************************************************)
(* The callers of the runs (run_karma.py main, the command line main): one *)
(* thread that calls process_document and process_update_document on one   *)
(* KARMA object, one call after the other.  A run is split where it reads  *)
(* the triple store (for integration, for the impact indices) and where it *)
(* writes it; call holds, for each kind of run, how far the call in flight *)
(* has got and the store as it read it                                     *)
(***************************************************************************)

\* CallReturned, but a call may begin while another call is in flight
CallInFlight(c) ==
    TRUE

Idle == [ stage |-> "idle" ]

\* run_karma.py:88,125: a call is a statement of the one calling thread, the
\* next statement runs when the call before it has returned
CallReturned(c) ==
    c.ingest = Idle /\ c.update = Idle

InitDriver ==
    /\ self = NewKARMA
    /\ ret = NoCall
    /\ call = [ op |-> "driver", ingest |-> Idle, update |-> Idle ]

\* process_document up to the integration against the store (stages 1 to 5)
IngestBegins ==
    /\ CallReturned(call)
    /\ \E cls \in ClassifyResponses, sg \in SegmentResponses, ver \in VersionResponses :
           LET document_type == classify_document(cls).document_type
               out == process_document(self, cls, << sg >>, ver, Error, Error)
               read == self.knowledge_graph.triples
           IN  /\ document_type # RELEASE_NOTES
               /\ ~DocumentTypeRaises(document_type)
               /\ WithinBounds(out.self)
               /\ call' = [ call EXCEPT !.ingest =
                              [ stage |-> "integrated", read |-> read,
                                new_triples |->
                                    SubSeq(out.self.knowledge_graph.triples,
                                           Len(read) + 1,
                                           Len(out.self.knowledge_graph.triples)),
                                cls |-> cls, segs |-> << sg >>, ver |-> ver ] ]
    /\ UNCHANGED << self, ret >>

\* process_document from "Add to knowledge graph" to its return: entities and
\* procedures are stored and the triples kept by the integration are appended
IngestCompletes ==
    /\ call.ingest # Idle
    /\ LET run == call.ingest
           out == process_document(self, run.cls, run.segs, run.ver, Error, Error)
           self1 == [ out.self EXCEPT !.knowledge_graph.triples =
                        self.knowledge_graph.triples \o run.new_triples ]
       IN  /\ WithinBounds(self1)
           /\ self' = self1
           /\ ret' = [ op |-> "process_document",
                       ret |-> [ out.ret EXCEPT !.triples = Len(run.new_triples) ] ]
    /\ call' = [ call EXCEPT !.ingest = Idle ]

\* process_update_document(text) up to the impact analysis of the store
UpdateBegins ==
    /\ CallReturned(call)
    /\ \E det \in DetectResponses(V9, AddedChangeInputs) :
           \E imp \in ImpactResponsesFor(self, det) :
               /\ WithinBounds(process_update_document(self, EmptyStr, det, imp).self)
               /\ call' = [ call EXCEPT !.update =
                              [ stage |-> "analyzed",
                                read |-> self.knowledge_graph.triples,
                                det |-> det, imp |-> imp ] ]
    /\ UNCHANGED << self, ret >>

\* process_update_document from the loop over the affected list to its
\* return: statuses are set by index and the synthesized triples appended
UpdateCompletes ==
    /\ call.update # Idle
    /\ LET run == call.update
           out == process_update_document(self, EmptyStr, run.det, run.imp)
       IN  /\ WithinBounds(out.self)
           /\ self' = out.self
           /\ ret' = [ op |-> "process_update_document", ret |-> out.ret ]
    /\ call' = [ call EXCEPT !.update = Idle ]

NextDriver == IngestBegins \/ IngestCompletes \/ UpdateBegins \/ UpdateCompletes

SpecDriver == InitDriver /\ [][NextDriver]_vars

(***************************************************************************)
(* Maintenance runs over change records of every type: added, removed with *)
(* and without a replacement, moved with and without a new place, renamed  *)
(* with and without an old name,                                           *)
(* changed, fixed.  The AnalyzeImpact call fails, so that the store changes *)
(* by the synthesis alone; the change list of the last run is kept in call *)
(***************************************************************************)

SynthesisChangeInputs ==
    { [ change_type |-> "added", entity_name |-> NameA, entity_type |-> FEATURE,
        old_value |-> EmptyStr, new_value |-> EmptyStr, description |-> "d1" ],
      [ change_type |-> "removed", entity_name |-> NameA, entity_type |-> FEATURE,
        old_value |-> EmptyStr, new_value |-> EmptyStr, description |-> "d1" ],
      [ change_type |-> "removed", entity_name |-> NameA, entity_type |-> FEATURE,
        old_value |-> EmptyStr, new_value |-> NameB, description |-> "d1" ],
      [ change_type |-> "moved", entity_name |-> NameA, entity_type |-> UI_ELEMENT,
        old_value |-> EmptyStr, new_value |-> NameB, description |-> "d1" ],
      [ change_type |-> "moved", entity_name |-> NameA, entity_type |-> UI_ELEMENT,
        old_value |-> EmptyStr, new_value |-> EmptyStr, description |-> "d1" ],
      [ change_type |-> "renamed", entity_name |-> NameA, entity_type |-> FEATURE,
        old_value |-> EmptyStr, new_value |-> NameB, description |-> "d1" ],
      [ change_type |-> "renamed", entity_name |-> NameA, entity_type |-> FEATURE,
        old_value |-> NameLowerA, new_value |-> NameB, description |-> "d1" ],
      [ change_type |-> "changed", entity_name |-> NameB, entity_type |-> FEATURE,
        old_value |-> EmptyStr, new_value |-> NameA, description |-> "d1" ],
      [ change_type |-> "fixed", entity_name |-> NameLowerB, entity_type |-> FEATURE,
        old_value |-> EmptyStr, new_value |-> EmptyStr, description |-> "d1" ] }

\* process_update_document(text) on a store of at most MaxSynthesisStore triples
SynthesisUpdateDocument ==
    /\ Len(self.knowledge_graph.triples) <= MaxSynthesisStore
    /\ \E det \in DetectResponses(V9, SynthesisChangeInputs) :
           LET out == process_update_document(self, EmptyStr, det, Error)
           IN  /\ self' = out.self
               /\ ret' = [ op |-> "process_update_document", ret |-> out.ret ]
               /\ call' = [ op |-> "changes", changes |-> out.changes ]

SpecSynthesis == Init /\ [][SynthesisUpdateDocument]_vars

(***************************************************************************)
(* resolve_versions on its own: a list of extracted triples, the response  *)
(* of the Extraction Service and the version detected in the document      *)
(***************************************************************************)

\* triples as the extraction stages make them: no version fields yet
ResolveTriples ==
    { UsageKnowledgeTriple(h, REQUIRES, NameB, UNKNOWN, UNKNOWN, EmptyStr, EmptyStr, 50, 0, "") :
        h \in { NameA, NameLowerA } }

ResolveEntries ==
    { [ introduced_version |-> V9, valid_range |-> Range9To10 ],
      [ introduced_version |-> EmptyStr, valid_range |-> Range2To9 ],
      [ introduced_version |-> V9 ] }

\* ResolveVersions: the call fails, the payload is no JSON, or it is a JSON
\* object with a versions list
ResolveResponses ==
    { Error, Unparseable }
    \cup { [ kind |-> "json", versions |-> vs ] : vs \in SeqUpTo(ResolveEntries, MaxBatch) }

InitResolve ==
    /\ self = NewKARMA
    /\ ret = NoCall
    /\ \E ts \in SeqUpTo(ResolveTriples, MaxBatch), resp \in ResolveResponses,
          v \in { EmptyStr, V9 } :
           call = [ op |-> "resolve_versions", done |-> FALSE, triples |-> ts,
                    resp |-> resp, detected_version |-> v ]

ResolveCall ==
    /\ call.op = "resolve_versions"
    /\ ~call.done
    /\ call' = [ op |-> "resolve_versions", done |-> TRUE,
                 triples |-> call.triples, resp |-> call.resp,
                 detected_version |-> call.detected_version,
                 ret |-> resolve_versions(call.triples, call.resp,
                                          call.detected_version) ]
    /\ UNCHANGED << self, ret >>

SpecResolve == InitResolve /\ [][ResolveCall]_vars

(***************************************************************************)
(* process_document where the Extraction Service has an answer for every   *)
(* call either mode could make: the extraction and version calls of an     *)
(* ingest run and the DetectChanges and AnalyzeImpact calls of a           *)
(* maintenance run.  call keeps the document type and the change list      *)
(***************************************************************************)

ModeImpactResponses ==
    { Error,
      [ kind |-> "json",
        affected_triples |-> << [ triple_index |-> JsonInt(0),
                                  impact |-> "deprecated" ] >> ] }

ModeProcessDocument ==
    \E cls \in ClassifyResponses, sg \in SegmentResponses, ver \in VersionResponses,
       det \in DetectResponses(V9, AddedChangeInputs) :
        \E imp \in IF ImpactResponsesFor(self, det) = { Error }
                   THEN { Error } ELSE ModeImpactResponses :
            LET out == process_document(self, cls, << sg >>, ver, det, imp)
            IN  /\ WithinBounds(out.self)
                /\ self' = out.self
                /\ ret' = [ op |-> "process_document", ret |-> out.ret ]
                /\ call' = [ op |-> "mode",
                             document_type |-> classify_document(cls).document_type,
                             changes |-> out.changes ]

SpecMode == Init /\ [][ModeProcessDocument]_vars

(***************************************************************************)
(* _segment_text on its own: a text over a letter, a blank and a newline,  *)
(* and a max_length                                                        *)
(***************************************************************************)

Newline == "\n"

\* str.split("\n\n"): the pieces between the occurrences of two newlines,
\* found from the left
RECURSIVE SplitParagraphs(_)
SplitParagraphs(text) ==
    LET at == { i \in 1..(Len(text) - 1) : text[i] = Newline /\ text[i + 1] = Newline }
    IN  IF at = { } THEN << text >>
        ELSE LET i == CHOOSE k \in at : \A m \in at : k <= m
             IN  << SubSeq(text, 1, i - 1) >>
                 \o SplitParagraphs(SubSeq(text, i + 2, Len(text)))

\* str.strip(): without the whitespace at both ends
RECURSIVE Strip(_)
Strip(s) ==
    IF s = << >> THEN s
    ELSE IF Head(s) \in { " ", Newline } THEN Strip(Tail(s))
    ELSE IF s[Len(s)] \in { " ", Newline } THEN Strip(SubSeq(s, 1, Len(s) - 1))
    ELSE s

\* lines 1564-1570: the loop over the paragraphs.  acc carries segments and
\* current_segment
RECURSIVE PackParagraphs(_, _, _)
PackParagraphs(paragraphs, max_length, acc) ==
    IF paragraphs = << >> THEN acc
    ELSE LET para == Head(paragraphs)
         IN  PackParagraphs(Tail(paragraphs), max_length,
               IF Len(acc.current_segment) + Len(para) < max_length
               THEN [ acc EXCEPT !.current_segment = @ \o para \o << Newline, Newline >> ]
               ELSE [ segments |->
                          IF Strip(acc.current_segment) # << >>
                          THEN Append(acc.segments, Strip(acc.current_segment))
                          ELSE acc.segments,
                      current_segment |-> para \o << Newline, Newline >> ])

\* KARMA._segment_text(text, max_length)
_segment_text(text, max_length) ==
    LET acc == PackParagraphs(SplitParagraphs(text), max_length,
                              [ segments |-> << >>, current_segment |-> << >> ])
        segments == IF Strip(acc.current_segment) # << >>
                    THEN Append(acc.segments, Strip(acc.current_segment))
                    ELSE acc.segments
    IN  IF segments # << >> THEN segments
        ELSE << SubSeq(text, 1, IF Len(text) < max_length THEN Len(text) ELSE max_length) >>

SegmentLengths == { 2, 3 }

InitSegment ==
    /\ self = NewKARMA
    /\ ret = NoCall
    /\ \E text \in SeqUpTo({ "x", " ", Newline }, MaxText), n \in SegmentLengths :
           call = [ op |-> "_segment_text", done |-> FALSE, text |-> text,
                    max_length |-> n ]

SegmentCall ==
    /\ call.op = "_segment_text"
    /\ ~call.done
    /\ call' = [ op |-> "_segment_text", done |-> TRUE, text |-> call.text,
                 max_length |-> call.max_length,
                 ret |-> _segment_text(call.text, call.max_length) ]
    /\ UNCHANGED << self, ret >>

SpecSegment == InitSegment /\ [][SegmentCall]_vars

(***************************************************************************)
(* The run metrics.  Every agent returns, with its result, the tokens its  *)
(* call used: the usage of the response, and nothing when the call failed  *)
(* or was not made.  self.intermediate carries prompt_tokens and           *)
(* completion_tokens here; call keeps the responses to the calls the last  *)
(* run made                                                                *)
(***************************************************************************)

\* response.usage of a response of the Extraction Service; a failed call
\* has none and the agent returns 0, 0
Usage(resp) ==
    IF resp.kind = "error" THEN [ prompt_tokens |-> 0, completion_tokens |-> 0 ]
    ELSE IF resp.kind = "unparseable"
    THEN [ prompt_tokens |-> 2, completion_tokens |-> 1 ]
    ELSE [ prompt_tokens |-> 3, completion_tokens |-> 2 ]

\* total_prompt_tokens += pt; total_completion_tokens += ct, over the calls
RECURSIVE TotalTokens(_)
TotalTokens(calls) ==
    IF calls = << >> THEN [ prompt_tokens |-> 0, completion_tokens |-> 0 ]
    ELSE LET rest == TotalTokens(Tail(calls))
         IN  [ prompt_tokens |-> Usage(Head(calls)).prompt_tokens + rest.prompt_tokens,
               completion_tokens |->
                   Usage(Head(calls)).completion_tokens + rest.completion_tokens ]

\* the responses to the calls an ingest run makes after Classify: three per
\* segment, one per segment for the relationships when there are entities,
\* one for the versions when there are triples
IngestCalls(cls_resp, segs, ver_resp) ==
    LET software == classify_document(cls_resp).software
        all_entities ==
            DedupEntities(
                Extend([ i \in 1..Len(segs) |->
                           extract_ui_elements(segs[i].ui, software)
                           \o extract_features(segs[i].features, software) ]), { })
        all_procedures ==
            Extend([ i \in 1..Len(segs) |->
                       extract_procedures(segs[i].procedures, software) ])
        all_triples ==
            Extend([ i \in 1..Len(segs) |->
                       extract_relationships(segs[i].relationships, all_entities) ])
            \o Extend([ i \in 1..Len(all_procedures) |->
                          ProcedureTriples(all_procedures[i], software) ])
    IN  << cls_resp >>
        \o Extend([ i \in 1..Len(segs) |->
                      << segs[i].ui, segs[i].features, segs[i].procedures >> ])
        \o (IF all_entities # << >>
            THEN [ i \in 1..Len(segs) |-> segs[i].relationships ] ELSE << >>)
        \o (IF all_triples # << >> THEN << ver_resp >> ELSE << >>)

\* the responses to the calls a maintenance run makes
MaintenanceCalls(s, detect_resp, impact_resp) ==
    << detect_resp >>
    \o (IF detect_changes(detect_resp).changes # << >>
           /\ s.knowledge_graph.triples # << >>
        THEN << impact_resp >> ELSE << >>)

\* lines 1743-1744: self.intermediate.prompt_tokens = total_prompt_tokens,
\* self.intermediate.completion_tokens = total_completion_tokens
RecordTokens(s, total) ==
    [ s EXCEPT !.intermediate.prompt_tokens = total.prompt_tokens,
                  !.intermediate.completion_tokens = total.completion_tokens ]

InitTokens ==
    /\ self = [ knowledge_graph |-> NewKARMA.knowledge_graph,
                intermediate |-> [ deprecated_triples |-> << >>,
                                   prompt_tokens |-> 0, completion_tokens |-> 0 ] ]
    /\ ret = NoCall
    /\ call = NoCall

\* process_document on a document of the ingest mode: the totals of the run
\* are recorded
TokensProcessDocument ==
    \E cls \in ClassifyResponses, sg \in SegmentResponses, ver \in VersionResponses :
        LET document_type == classify_document(cls).document_type
            out == process_document(self, cls, << sg >>, ver, Error, Error)
            calls == IngestCalls(cls, << sg >>, ver)
        IN  /\ document_type # RELEASE_NOTES
            /\ ~DocumentTypeRaises(document_type)
            /\ WithinBounds(out.self)
            /\ self' = RecordTokens(out.self, TotalTokens(calls))
            /\ ret' = [ op |-> "process_document", ret |-> out.ret ]
            /\ call' = [ op |-> "calls", calls |-> calls ]

\* process_document on release notes: process_update_document returns the
\* summary, and records the elapsed time only
TokensReleaseNotes ==
    \E cls \in ClassifyResponses, det \in DetectResponses(V9, AddedChangeInputs) :
        \E imp \in IF ImpactResponsesFor(self, det) = { Error }
                   THEN { Error } ELSE ModeImpactResponses :
            LET out == process_document(self, cls, << >>, Error, det, imp)
            IN  /\ classify_document(cls).document_type = RELEASE_NOTES
                /\ WithinBounds(out.self)
                /\ self' = out.self
                /\ ret' = [ op |-> "process_document", ret |-> out.ret ]
                /\ call' = [ op |-> "calls",
                             calls |-> << cls >> \o MaintenanceCalls(self, det, imp) ]

\* process_update_document(text)
TokensUpdateDocument ==
    \E det \in DetectResponses(V9, AddedChangeInputs) :
        \E imp \in IF ImpactResponsesFor(self, det) = { Error }
                   THEN { Error } ELSE ModeImpactResponses :
            LET out == process_update_document(self, EmptyStr, det, imp)
            IN  /\ WithinBounds(out.self)
                /\ self' = out.self
                /\ ret' = [ op |-> "process_update_document", ret |-> out.ret ]
                /\ call' = [ op |-> "calls", calls |-> MaintenanceCalls(self, det, imp) ]

NextTokens == TokensProcessDocument \/ TokensReleaseNotes \/ TokensUpdateDocument

SpecTokens == InitTokens /\ [][NextTokens]_vars

(***************************************************************************)
(* Ingest runs that extract procedures only: lists of up to MaxBatch       *)
(* procedures named A, B or b, from documents of two software products     *)
(***************************************************************************)

IndexProcedures ==
    { [ name |-> n, steps |-> << NameA >>, outcome |-> EmptyStr ] :
        n \in { NameA, NameB, NameLowerB } }

IndexSegmentResponses ==
    { [ ui |-> Error, features |-> Error, relationships |-> Error,
        procedures |-> [ kind |-> "json", procedures |-> ps ] ] :
        ps \in SeqUpTo(IndexProcedures, MaxBatch) \ { << >> } }

IndexClassifyResponses ==
    { [ kind |-> "json",
        payload |-> [ document_type |-> "tutorial", software |-> s,
                      version |-> EmptyStr ] ] : s \in { "Editor", "Viewer" } }

IndexProcessDocument ==
    \E cls \in IndexClassifyResponses, sg \in IndexSegmentResponses :
        Returns("process_document",
                process_document(self, cls, << sg >>, Error, Error, Error), FALSE)

SpecIndex == Init /\ [][IndexProcessDocument]_vars

(***************************************************************************)
(* Ingest runs that extract one procedure B whose steps are drawn from two *)
(* step texts, repeated or not.  call keeps the procedures of the last run *)
(***************************************************************************)

StepsSegmentResponses ==
    { [ ui |-> Error, features |-> Error, relationships |-> Error,
        procedures |-> [ kind |-> "json",
                         procedures |-> << [ name |-> NameB, steps |-> st,
                                             outcome |-> EmptyStr ] >> ] ] :
        st \in SeqUpTo({ NameA, NameB }, MaxSteps) \ { << >> } }

StepsProcessDocument ==
    \E cls \in ClassifyResponses, sg \in StepsSegmentResponses :
        LET classification == classify_document(cls)
            out == process_document(self, cls, << sg >>, Error, Error, Error)
        IN  /\ classification.document_type = "tutorial"
            /\ self' = out.self
            /\ ret' = [ op |-> "process_document", ret |-> out.ret ]
            /\ call' = [ op |-> "procedures",
                         procedures |-> extract_procedures(sg.procedures,
                                                           classification.software) ]

SpecSteps == Init /\ [][StepsProcessDocument]_vars

(***************************************************************************)
(* The claims                                                              *)
(***************************************************************************)

\* the identity of a triple: (head, relation, tail) without letter case
Identity(t) == << Lower(t.head), Lower(t.relation), Lower(t.tail) >>

\* the last call was an ingest or maintenance run
LastCallIsRun == ret.op \in { "process_document", "process_update_document" }

\* the last call was a maintenance run that returned its summary (the one
\* with the key triples_added)
MaintenanceRunReturned ==
    /\ LastCallIsRun
    /\ ~ret.ret.raised
    /\ "triples_added" \in DOMAIN ret.ret

\* the triples that run appended to the store
Synthesized ==
    LET triples == self.knowledge_graph.triples
    IN  SubSeq(triples, Len(triples) - ret.ret.triples_added + 1, Len(triples))

\* the fields of a triple the claims on synthesized triples speak of
Stated(t) ==
    [ head |-> t.head, relation |-> t.relation, tail |-> t.tail,
      introduced_version |-> t.introduced_version,
      valid_version_range |-> t.valid_version_range,
      confidence |-> t.confidence, status |-> t.status ]

\* C1: integrate_triples accepts no new triple whose identity, compared
\* without letter case on head, relation and tail, is that of an existing
\* triple or of a triple accepted earlier in the batch.
IntegrateAcceptsNoKnownIdentity ==
    (call.op = "integrate_triples" /\ call.done) =>
        LET to_add == call.ret.to_add
            existing == call.existing_triples
        IN  \A i \in 1..Len(to_add) :
                /\ \A e \in 1..Len(existing) :
                       Identity(to_add[i]) # Identity(existing[e])
                /\ \A j \in 1..(i - 1) : Identity(to_add[j]) # Identity(to_add[i])

\* C2: after any sequence of ingest and maintenance runs the Triple Store
\* holds no two triples of the same identity, synthesized ones included.
StoreHasNoDuplicateIdentity ==
    LET triples == self.knowledge_graph.triples
    IN  \A i, j \in 1..Len(triples) :
            i # j => Identity(triples[i]) # Identity(triples[j])

\* C3: a stored triple whose status is DEPRECATED or NEEDS_REVIEW is still
\* stored and not ACTIVE after any one call, whichever call it is.
StatusNeverBackToActive ==
    [][ \A i \in 1..Len(self.knowledge_graph.triples) :
            self.knowledge_graph.triples[i].status \in { DEPRECATED, NEEDS_REVIEW }
            => /\ i <= Len(self'.knowledge_graph.triples)
               /\ self'.knowledge_graph.triples[i].status # ACTIVE ]_vars

\* an ingest run has returned on a store that holds a triple that was no
\* longer ACTIVE when the run began
IngestAfterStatusChange ==
    /\ ret.op = "process_document"
    /\ ~ret.ret.raised
    /\ "triples" \in DOMAIN ret.ret
    /\ ret.ret.triples > 0
    /\ \E i \in 1..Len(self.knowledge_graph.triples) :
           self.knowledge_graph.triples[i].status \in { DEPRECATED, NEEDS_REVIEW }

\* C4: a stored triple whose status is DEPRECATED or NEEDS_REVIEW keeps that
\* very status through any one call: transitions leave ACTIVE only.
StatusTerminal ==
    [][ \A i \in 1..Len(self.knowledge_graph.triples) :
            self.knowledge_graph.triples[i].status \in { DEPRECATED, NEEDS_REVIEW }
            => /\ i <= Len(self'.knowledge_graph.triples)
               /\ self'.knowledge_graph.triples[i].status
                  = self.knowledge_graph.triples[i].status ]_vars

\* "range contains v" as stated: "unknown" always, "V+" iff v >= V,
\* "V1-V2" iff V1 <= v <= V2, strings compared lexicographically
RangeContains(range, v) ==
    IF range = RangeUnknown THEN TRUE
    ELSE IF range # EmptyStr /\ range[Len(range)] = "+"
    THEN StrGE(v, SubSeq(range, 1, Len(range) - 1))
    ELSE \E k \in 1..Len(range) :
             /\ range[k] = "-"
             /\ StrLE(SubSeq(range, 1, k - 1), v)
             /\ StrLE(v, SubSeq(range, k + 1, Len(range)))

\* the positions in result are those of want, each once, in store order
ExactlyInStoreOrder(result, want) ==
    /\ { result[k] : k \in 1..Len(result) } = want
    /\ \A a, b \in 1..Len(result) : a < b => result[a] < result[b]

\* C5 as stated: get_knowledge_for_version(v) returns exactly the ACTIVE
\* triples whose valid range contains v, in store order.
QueryReturnsActiveInRange ==
    call.op = "get_knowledge_for_version" =>
        LET triples == self.knowledge_graph.triples
        IN  ExactlyInStoreOrder(call.ret,
                { i \in 1..Len(triples) :
                    /\ triples[i].status = ACTIVE
                    /\ RangeContains(triples[i].valid_version_range, call.version) })

\* C5: get_knowledge_for_version(v) returns exactly the ACTIVE triples that
\* have no valid range or whose valid range contains v, in store order.
QueryReturnsActiveUnrangedOrInRange ==
    call.op = "get_knowledge_for_version" =>
        LET triples == self.knowledge_graph.triples
        IN  ExactlyInStoreOrder(call.ret,
                { i \in 1..Len(triples) :
                    /\ triples[i].status = ACTIVE
                    /\ \/ triples[i].valid_version_range = EmptyStr
                       \/ RangeContains(triples[i].valid_version_range, call.version) })

\* a query has returned the ACTIVE triple without a range and left out the
\* triple that is ACTIVE but whose range ends below the queried version
QueryOverUnrangedAndRanged ==
    /\ call.op = "get_knowledge_for_version"
    /\ call.version = V9
    /\ Len(self.knowledge_graph.triples) = 2
    /\ self.knowledge_graph.triples[1].status = ACTIVE
    /\ self.knowledge_graph.triples[1].valid_version_range = Range9To10
    /\ self.knowledge_graph.triples[2].status = ACTIVE
    /\ self.knowledge_graph.triples[2].valid_version_range = EmptyStr
    /\ call.ret = << 2 >>

\* C6: two registered entities of the same type whose names are equal up to
\* letter case have the same id, whichever source created them.
EntityIdIsFunctionOfTypeAndName ==
    LET entities == self.knowledge_graph.entities
    IN  \A a, b \in DOMAIN entities :
            (/\ entities[a].entity_type = entities[b].entity_type
             /\ Lower(entities[a].name) = Lower(entities[b].name))
            => a = b

\* C7: a call leaves every entry of the Entity Registry as it was: a
\* registered id stays registered, with the first-registered entity.
FirstRegisteredWins ==
    [][ \A id \in DOMAIN self.knowledge_graph.entities :
            /\ id \in DOMAIN self'.knowledge_graph.entities
            /\ self'.knowledge_graph.entities[id] = self.knowledge_graph.entities[id]
      ]_vars

\* C8: every call of process_document and of process_update_document
\* returns its summary; none raises.
RunsNeverRaise == LastCallIsRun => ~ret.ret.raised

\* the triple C9 states for an 'added' record
AddedTriple(change, version) ==
    [ head |-> change.entity_name, relation |-> INTRODUCED_IN, tail |-> version,
      introduced_version |-> version,
      valid_version_range |-> version \o << "+" >>,
      confidence |-> 95, status |-> ACTIVE ]

\* C9: the introduced_in triples a maintenance run appends are, one for one
\* and in order, those of its 'added' records: (E, introduced_in, V),
\* introduced_version V, range "V+", confidence 0.95, ACTIVE; a run of
\* 'added' records only appends nothing else; and the registry holds for
\* each 'added' record an entity of type T and version_introduced V whose
\* name is E up to letter case, and E itself unless a later 'added' record
\* of the run names the same entity in another case.
AddedRecordSynthesis ==
    MaintenanceRunReturned =>
        LET changes == call.changes
            version == ret.ret.version
            entities == self.knowledge_graph.entities
            added == SelectSeq(changes, LAMBDA c : c.change_type = "added")
            introduced == SelectSeq(Synthesized, LAMBDA t : t.relation = INTRODUCED_IN)
        IN  /\ Len(introduced) = Len(added)
            /\ \A k \in 1..Len(added) :
                   Stated(introduced[k]) = AddedTriple(added[k], version)
            /\ Len(added) = Len(changes) => Len(Synthesized) = Len(changes)
            /\ \A k \in 1..Len(changes) :
                   changes[k].change_type = "added" =>
                       \E id \in DOMAIN entities :
                           /\ entities[id].entity_type = changes[k].entity_type
                           /\ entities[id].version_introduced = version
                           /\ Lower(entities[id].name) = Lower(changes[k].entity_name)
                           /\ (\A m \in (k + 1)..Len(changes) :
                                   ~(/\ changes[m].change_type = "added"
                                     /\ changes[m].entity_type = changes[k].entity_type
                                     /\ Lower(changes[m].entity_name)
                                        = Lower(changes[k].entity_name)))
                              => entities[id].name = changes[k].entity_name

\* a maintenance run of version 9 has returned from a change list of two
\* 'added' records that name one entity in two cases
AddedRecordsSynthesized ==
    /\ MaintenanceRunReturned
    /\ ret.ret.version = V9
    /\ Len(call.changes) = 2
    /\ call.changes[1].change_type = "added"
    /\ call.changes[2].change_type = "added"
    /\ call.changes[1].entity_name # call.changes[2].entity_name
    /\ ret.ret.triples_added = 2

\* the triples C10 states for a 'moved' record
MovedToTriple(change, version) ==
    [ head |-> change.entity_name, relation |-> MOVED_TO, tail |-> change.new_value,
      introduced_version |-> version, valid_version_range |-> EmptyStr,
      confidence |-> 90, status |-> ACTIVE ]

LocatedInTriple(change, version) ==
    [ head |-> change.entity_name, relation |-> LOCATED_IN, tail |-> change.new_value,
      introduced_version |-> version,
      valid_version_range |-> version \o << "+" >>,
      confidence |-> 90, status |-> ACTIVE ]

\* C10: the moved_to and located_in triples a maintenance run appends are,
\* two for each 'moved' record and in order, (E, moved_to, N) and
\* (E, located_in, N), both of introduced_version the run version and
\* confidence 0.90, the located_in one alone with range "<version>+"; a run
\* of 'moved' records only appends nothing else.
MovedRecordSynthesis ==
    MaintenanceRunReturned =>
        LET changes == call.changes
            version == ret.ret.version
            moved == SelectSeq(changes, LAMBDA c : c.change_type = "moved")
            relocated == SelectSeq(Synthesized,
                             LAMBDA t : t.relation \in { MOVED_TO, LOCATED_IN })
        IN  /\ Len(relocated) = 2 * Len(moved)
            /\ \A k \in 1..Len(moved) :
                   /\ Stated(relocated[2 * k - 1]) = MovedToTriple(moved[k], version)
                   /\ Stated(relocated[2 * k]) = LocatedInTriple(moved[k], version)
            /\ Len(moved) = Len(changes) => Len(Synthesized) = 2 * Len(changes)

\* a maintenance run has returned from a change list with a 'moved' record
\* after an 'added' one
MovedRecordSynthesized ==
    /\ MaintenanceRunReturned
    /\ Len(call.changes) = 2
    /\ call.changes[1].change_type = "added"
    /\ call.changes[2].change_type = "moved"
    /\ ret.ret.triples_added = 3

\* C11: the triples derived from a procedure of n steps are n part_of
\* triples (step_i, part_of, procedure) of step_order 1..n in step order,
\* n-1 next_step triples (step_{i-1}, next_step, step_i), one (procedure,
\* achieves, outcome) triple when the outcome is not empty, and no others.
ProcedureDerivation ==
    (call.op = "procedure_triples" /\ call.done) =>
        LET proc == call.proc
            n == Len(proc.steps)
            part == SelectSeq(call.ret, LAMBDA t : t.relation = PART_OF)
            next == SelectSeq(call.ret, LAMBDA t : t.relation = NEXT_STEP)
            achieves == SelectSeq(call.ret, LAMBDA t : t.relation = ACHIEVES)
        IN  /\ Len(part) = n
            /\ \A i \in 1..n :
                   /\ part[i].head = proc.steps[i]
                   /\ part[i].tail = proc.name
                   /\ part[i].step_order = i
            /\ Len(next) = n - 1
            /\ \A i \in 1..(n - 1) :
                   /\ next[i].head = proc.steps[i]
                   /\ next[i].tail = proc.steps[i + 1]
            /\ Len(achieves) = IF proc.outcome # EmptyStr THEN 1 ELSE 0
            /\ \A i \in 1..Len(achieves) :
                   /\ achieves[i].head = proc.name
                   /\ achieves[i].tail = proc.outcome
            /\ Len(call.ret) = Len(part) + Len(next) + Len(achieves)

\* the triples of a procedure of three steps with an outcome are derived:
\* six of them
ThreeStepProcedureDerived ==
    /\ call.op = "procedure_triples"
    /\ call.done
    /\ Len(call.proc.steps) = 3
    /\ call.proc.outcome # EmptyStr
    /\ Len(call.ret) = 6

\* the number of objects of a re-imported list that have status st
CountLoaded(list, st) == Cardinality({ i \in 1..Len(list) : list[i].status = st })

\* C12: the document loaded back from an export has as many entities,
\* procedures and triples as the exported graph and the graph's statistics,
\* each statistic being the count over the loaded lists.
ExportImportRoundTrip ==
    [][ (call' # call /\ call'.op = "load_from_json") =>
            LET kg == self.knowledge_graph
                doc == call'.ret
            IN  /\ Len(doc.entities) = Cardinality(DOMAIN kg.entities)
                /\ Len(doc.procedures) = Cardinality(DOMAIN kg.procedures)
                /\ Len(doc.triples) = Len(kg.triples)
                /\ doc.statistics = ExportStatistics(self)
                /\ doc.statistics.total_entities = Len(doc.entities)
                /\ doc.statistics.total_procedures = Len(doc.procedures)
                /\ doc.statistics.total_triples = Len(doc.triples)
                /\ doc.statistics.active_triples = CountLoaded(doc.triples, ACTIVE)
                /\ doc.statistics.deprecated_triples
                   = CountLoaded(doc.triples, DEPRECATED) ]_vars

\* a graph with entities, a procedure, and triples of each status has been
\* exported and loaded back
MixedGraphReloaded ==
    /\ call.op = "load_from_json"
    /\ Len(call.ret.entities) >= 2
    /\ Len(call.ret.procedures) >= 1
    /\ Len(call.ret.triples) = 3
    /\ CountLoaded(call.ret.triples, ACTIVE) >= 1
    /\ CountLoaded(call.ret.triples, DEPRECATED) >= 1

\* the triples of a list whose identity is not in seen and not that of an
\* earlier triple of the list, in the list's order
RECURSIVE FirstOccurrences(_, _)
FirstOccurrences(triples, seen) ==
    IF triples = << >> THEN << >>
    ELSE IF Identity(Head(triples)) \in seen
    THEN FirstOccurrences(Tail(triples), seen)
    ELSE << Head(triples) >>
         \o FirstOccurrences(Tail(triples), seen \cup { Identity(Head(triples)) })

\* C13: integrate_triples returns as toAdd the first occurrence of each
\* identity of newTriples that existingTriples does not hold, in the
\* original order, and an empty toFlag; both are empty for an empty
\* newTriples.
IntegrateReturnsFirstOccurrences ==
    (call.op = "integrate_triples" /\ call.done) =>
        /\ call.ret.to_add
           = FirstOccurrences(call.new_triples,
                              { Identity(call.existing_triples[e]) :
                                  e \in 1..Len(call.existing_triples) })
        /\ call.ret.to_flag = << >>
        /\ call.new_triples = << >> => call.ret.to_add = << >>

\* an impact entry names a triple of a store of n triples
InStore(entry, n) ==
    /\ "triple_index" \in DOMAIN entry
    /\ 0 <= entry.triple_index.value
    /\ entry.triple_index.value < n

\* the entries of the affected list that name a stored triple and carry kind
CountEntries(affected, n, kind) ==
    Cardinality({ i \in DOMAIN affected :
                    InStore(affected[i], n) /\ affected[i].impact = kind })

\* C14: an impact entry whose triple_index is negative, past the end of the
\* store or missing is ignored by the maintenance run: the run does not raise,
\* only entries that name a stored triple are counted as deprecated or flagged
\* and reported, the report only grows by the in-range 'deprecated' entries,
\* and a triple that no in-range entry names keeps every field
OutOfRangeImpactIgnored ==
    [][ call'.op = "affected" =>
          LET old == self.knowledge_graph.triples
              n == Len(old)
              a == call'.affected
              report == self.intermediate.deprecated_triples
              report1 == self'.intermediate.deprecated_triples
          IN  /\ ~ret'.ret.raised
              /\ ret'.ret.triples_deprecated = CountEntries(a, n, "deprecated")
              /\ ret'.ret.triples_flagged = CountEntries(a, n, "needs_update")
              /\ Len(report1) = Len(report) + CountEntries(a, n, "deprecated")
              /\ SubSeq(report1, 1, Len(report)) = report
              /\ \A p \in 1..n :
                    (~\E i \in DOMAIN a :
                         InStore(a[i], n) /\ a[i].triple_index.value + 1 = p)
                    => self'.knowledge_graph.triples[p] = old[p] ]_vars

\* a run whose affected list holds an entry outside the store followed by an
\* in-range 'deprecated' entry, which was applied
OutOfRangeThenInRangeApplied ==
    /\ call.op = "affected"
    /\ Len(call.affected) = 2
    /\ ~InStore(call.affected[1], Len(self.knowledge_graph.triples) - 1)
    /\ call.affected[2] = [ triple_index |-> JsonInt(0), impact |-> "deprecated" ]
    /\ ret.ret.triples_deprecated = 1
    /\ self.knowledge_graph.triples[1].status = DEPRECATED


\* the stored triples and the deprecated report after the entries of an
\* affected list, each naming a stored triple, are classified one by one
RECURSIVE ClassifiedImpacts(_, _, _)
ClassifiedImpacts(affected, version, acc) ==
    IF affected = << >> THEN acc
    ELSE LET p == Head(affected).triple_index.value + 1
             kind == Head(affected).impact
         IN  ClassifiedImpacts(Tail(affected), version,
               IF kind = "deprecated"
               THEN [ triples |-> [ acc.triples EXCEPT
                                      ![p].status = DEPRECATED,
                                      ![p].deprecated_version = version ],
                      report |-> Append(acc.report, p) ]
               ELSE IF kind = "needs_update"
               THEN [ triples |-> [ acc.triples EXCEPT
                                      ![p].status = NEEDS_REVIEW ],
                      report |-> acc.report ]
               ELSE acc)

\* C16: in a maintenance run whose impact entries all name a stored triple,
\* 'deprecated' sets the triple's status to DEPRECATED and its
\* deprecated_version to the version of the run and appends the triple to the
\* deprecated report, 'needs_update' sets the status to NEEDS_REVIEW and leaves
\* deprecated_version alone, and any other impact leaves the triple as it was
ImpactClassification ==
    [][ ( /\ call'.op = "affected"
          /\ \A i \in DOMAIN call'.affected :
                InStore(call'.affected[i], Len(self.knowledge_graph.triples)) )
        => LET n == Len(self.knowledge_graph.triples)
               expected == ClassifiedImpacts(call'.affected, ret'.ret.version,
                             [ triples |-> self.knowledge_graph.triples,
                               report |-> self.intermediate.deprecated_triples ])
           IN  /\ SubSeq(self'.knowledge_graph.triples, 1, n) = expected.triples
               /\ self'.intermediate.deprecated_triples = expected.report ]_vars

\* one run deprecated the first stored triple and flagged the second
DeprecatedAndFlaggedInOneRun ==
    /\ call.op = "affected"
    /\ call.affected = << [ triple_index |-> JsonInt(0), impact |-> "deprecated" ],
                          [ triple_index |-> JsonInt(1), impact |-> "needs_update" ] >>
    /\ self.knowledge_graph.triples[1].status = DEPRECATED
    /\ self.knowledge_graph.triples[1].deprecated_version = ret.ret.version
    /\ self.knowledge_graph.triples[2].status = NEEDS_REVIEW
    /\ self.knowledge_graph.triples[2].deprecated_version = EmptyStr
    /\ self.intermediate.deprecated_triples # << >>


Statement(t) == << t.head, t.relation, t.tail >>

\* the statements C17 gives for one change record, in order
ClaimedStatements(change, version) ==
    IF change.change_type = "added"
    THEN << << change.entity_name, INTRODUCED_IN, version >> >>
    ELSE IF change.change_type = "removed"
    THEN << << change.entity_name, REMOVED_IN, version >> >>
         \o (IF change.new_value # EmptyStr
             THEN << << change.entity_name, REPLACED_BY, change.new_value >> >>
             ELSE << >>)
    ELSE IF change.change_type = "moved"
    THEN << << change.entity_name, MOVED_TO, change.new_value >>,
            << change.entity_name, LOCATED_IN, change.new_value >> >>
    ELSE IF change.change_type = "renamed"
    THEN << << IF change.old_value # EmptyStr THEN change.old_value
                                               ELSE change.entity_name,
               RENAMED_TO, change.new_value >> >>
    ELSE << >>

RECURSIVE ClaimedSynthesis(_, _)
ClaimedSynthesis(changes, version) ==
    IF changes = << >> THEN << >>
    ELSE ClaimedStatements(Head(changes), version)
         \o ClaimedSynthesis(Tail(changes), version)

\* the records of a change list of one type
CountType(changes, type) ==
    Cardinality({ i \in DOMAIN changes : changes[i].change_type = type })

\* C17: a maintenance run appends, and counts as triples_added, one triple
\* for each 'added' record, one for each 'removed' record and one more when
\* that record has a new_value, two for each 'moved' record and one for each
\* 'renamed' record; 'changed' and 'fixed' records give no triple and no
\* entity; a 'removed' record gives (entity, removed_in, version) and, with a
\* new_value only, (entity, replaced_by, new_value); a 'renamed' record gives
\* one triple whose head is old_value when there is one, else entity_name
MaintenanceSynthesisCount ==
    [][ call'.op = "changes" =>
          LET changes == call'.changes
              old == self.knowledge_graph.triples
              new == self'.knowledge_graph.triples
              appended == SubSeq(new, Len(old) + 1, Len(new))
              replaced == Cardinality({ i \in DOMAIN changes :
                              /\ changes[i].change_type = "removed"
                              /\ changes[i].new_value # EmptyStr })
          IN  /\ SubSeq(new, 1, Len(old)) = old
              /\ ret'.ret.triples_added = Len(appended)
              /\ Len(appended) = CountType(changes, "added")
                                 + CountType(changes, "removed") + replaced
                                 + 2 * CountType(changes, "moved")
                                 + CountType(changes, "renamed")
              /\ [ i \in 1..Len(appended) |-> Statement(appended[i]) ]
                 = ClaimedSynthesis(changes, ret'.ret.version)
              /\ CountType(changes, "added") = 0 =>
                     self'.knowledge_graph.entities = self.knowledge_graph.entities ]_vars

\* a run over a 'removed' record with a replacement and a 'renamed' record
\* with an old name appended three triples to a store that held one
RemovedAndRenamedSynthesized ==
    /\ call.op = "changes"
    /\ Len(call.changes) = 2
    /\ call.changes[1].change_type = "removed"
    /\ call.changes[1].new_value # EmptyStr
    /\ call.changes[2].change_type = "renamed"
    /\ call.changes[2].old_value # EmptyStr
    /\ ret.ret.triples_added = 3
    /\ Len(self.knowledge_graph.triples) = 4
    /\ self.knowledge_graph.triples[4].head = call.changes[2].old_value


\* C18: after resolve_versions every triple without an explicit result (the
\* call failed, the payload was unparseable, or the versions list is shorter
\* than the triple list) has the valid range "<detected_version>+" when a
\* document version was detected and "unknown" otherwise
FallbackRangeWithoutExplicitResult ==
    (call.op = "resolve_versions" /\ call.done) =>
        \A i \in 1..Len(call.ret) :
            (call.resp.kind # "json" \/ i > Len(call.resp.versions)) =>
                call.ret[i].valid_version_range
                = IF call.detected_version # EmptyStr
                  THEN call.detected_version \o << "+" >>
                  ELSE RangeUnknown

\* C19: a valid_range that the Extraction Service returned for a triple is
\* the range resolve_versions stores for it, whether or not introduced_version
\* is empty and whether or not a document version was detected
ExplicitRangeStored ==
    (call.op = "resolve_versions" /\ call.done /\ call.resp.kind = "json") =>
        \A i \in 1..Len(call.ret) :
            (i <= Len(call.resp.versions)
             /\ "valid_range" \in DOMAIN call.resp.versions[i]) =>
                call.ret[i].valid_version_range = call.resp.versions[i].valid_range


\* C20: when Classify returns release_notes, process_document runs the
\* maintenance mode only: the returned summary is the maintenance summary,
\* the procedure index is untouched, the registry gets only the entities of
\* 'added' records and the store only the synthesized triples; for every
\* other document type the run is an ingest run: it returns the ingest
\* summary, and no stored triple and no deprecated report changes
ModeSelection ==
    [][ call'.op = "mode" =>
          LET old == self.knowledge_graph.triples
              new == self'.knowledge_graph.triples
              appended == SubSeq(new, Len(old) + 1, Len(new))
          IN  IF call'.document_type = RELEASE_NOTES
              THEN /\ "triples_added" \in DOMAIN ret'.ret
                   /\ self'.knowledge_graph.procedures = self.knowledge_graph.procedures
                   /\ CountType(call'.changes, "added") = 0 =>
                          self'.knowledge_graph.entities = self.knowledge_graph.entities
                   /\ [ i \in 1..Len(appended) |-> Statement(appended[i]) ]
                      = ClaimedSynthesis(call'.changes, ret'.ret.version)
              ELSE /\ "triples" \in DOMAIN ret'.ret
                   /\ call'.changes = << >>
                   /\ SubSeq(new, 1, Len(old)) = old
                   /\ self'.intermediate.deprecated_triples
                      = self.intermediate.deprecated_triples ]_vars


\* C21: every segment returned by _segment_text(text, max_length) has length
\* at most max_length, for every text, and the result is never an empty list
SegmentsBounded ==
    (call.op = "_segment_text" /\ call.done) =>
        /\ call.ret # << >>
        /\ \A i \in 1..Len(call.ret) : Len(call.ret[i]) <= call.max_length


\* the sum of a field of the usage over the responses to the calls of a run
RECURSIVE Reported(_, _)
Reported(calls, field) ==
    IF calls = << >> THEN 0
    ELSE (IF Head(calls).kind = "error" THEN 0
          ELSE IF Head(calls).kind = "unparseable"
          THEN (IF field = "prompt_tokens" THEN 2 ELSE 1)
          ELSE (IF field = "prompt_tokens" THEN 3 ELSE 2))
         + Reported(Tail(calls), field)

\* C22: when a run of either mode has returned, the token counts recorded
\* for it (prompt_tokens, completion_tokens) are the sums of the tokens
\* reported by all Extraction Service calls the run made, DetectChanges and
\* AnalyzeImpact of a maintenance run included, and Classify when
\* process_document transfers to the maintenance mode
RunTokensRecorded ==
    call.op = "calls" =>
        /\ self.intermediate.prompt_tokens = Reported(call.calls, "prompt_tokens")
        /\ self.intermediate.completion_tokens
           = Reported(call.calls, "completion_tokens")


\* C23: two extracted procedures share one entry of the procedure index if
\* and only if they have the same name and the same software: no two entries
\* hold procedures of one name and software, and no run stores a procedure
\* under the key of an entry whose procedure has another name or software
ProcedureIndexKeyedByNameAndSoftware ==
    [][ LET old == self.knowledge_graph.procedures
            new == self'.knowledge_graph.procedures
        IN  /\ \A k1, k2 \in DOMAIN new :
                   (new[k1].name = new[k2].name
                    /\ new[k1].software = new[k2].software) => k1 = k2
            /\ \A k \in DOMAIN old :
                   /\ k \in DOMAIN new
                   /\ new[k].name = old[k].name
                   /\ new[k].software = old[k].software ]_vars


\* C24: in every reachable state the relation of every stored triple is a
\* value of the enumeration RelationType, whatever relation strings the
\* relationship extraction returned
StoredRelationsEnumerated ==
    \A i \in 1..Len(self.knowledge_graph.triples) :
        self.knowledge_graph.triples[i].relation \in RelationType


\* C25: in every reachable state a stored triple has a non-empty
\* deprecated_version if and only if its status is DEPRECATED
DeprecatedVersionIffDeprecated ==
    \A i \in 1..Len(self.knowledge_graph.triples) :
        LET t == self.knowledge_graph.triples[i]
        IN  (t.deprecated_version # EmptyStr) <=> (t.status = DEPRECATED)


\* C26: an ingest run adds no triple whose identity is that of a stored
\* triple that is DEPRECATED or NEEDS_REVIEW, and leaves every stored triple
\* as it was, so that the identity has no ACTIVE triple after the run
DeprecatedIdentityNotReadded ==
    [][ (ret'.op = "process_document" /\ "triples" \in DOMAIN ret'.ret) =>
          LET old == self.knowledge_graph.triples
              new == self'.knowledge_graph.triples
          IN  /\ SubSeq(new, 1, Len(old)) = old
              /\ \A i \in 1..Len(old), j \in (Len(old) + 1)..Len(new) :
                     old[i].status # ACTIVE => Identity(new[j]) # Identity(old[i]) ]_vars


\* C27: after an ingest run, for every procedure of n steps the run stored
\* in the procedure index the triple store holds, for each i in 1..n, a
\* triple (step i, part_of, procedure) with step_order i and, for each i in
\* 2..n, a triple (step i-1, next_step, step i)
StoredProcedureHasItsStepTriples ==
    call.op = "procedures" =>
        \A k \in 1..Len(call.procedures) :
            LET proc == call.procedures[k]
                triples == self.knowledge_graph.triples
            IN  \A i \in 1..Len(proc.steps) :
                    /\ \E j \in 1..Len(triples) :
                           /\ triples[j].head = proc.steps[i]
                           /\ triples[j].relation = PART_OF
                           /\ triples[j].tail = proc.name
                           /\ triples[j].step_order = i
                    /\ i > 1 =>
                           \E j \in 1..Len(triples) :
                               /\ triples[j].head = proc.steps[i - 1]
                               /\ triples[j].relation = NEXT_STEP
                               /\ triples[j].tail = proc.steps[i]


\* C28: the triples_deprecated count a maintenance run returns is the number
\* of distinct triples whose status the run changed to DEPRECATED, and the
\* deprecated report after the run lists exactly those triples, each once
DeprecatedCountAndReportPerRun ==
    [][ call'.op = "affected" =>
          LET old == self.knowledge_graph.triples
              new == self'.knowledge_graph.triples
              report == self'.intermediate.deprecated_triples
              changed == { p \in 1..Len(old) :
                             old[p].status # DEPRECATED /\ new[p].status = DEPRECATED }
          IN  /\ ret'.ret.triples_deprecated = Cardinality(changed)
              /\ Len(report) = Cardinality(changed)
              /\ { report[i] : i \in 1..Len(report) } = changed ]_vars


\* a stored triple without the two fields a maintenance run may set
Frame(t) == [ t EXCEPT !.status = ACTIVE, !.deprecated_version = EmptyStr ]

\* C29: the triple store is append-only: no step removes or reorders
\* triples or shortens the store; an ingest run, a query and an export change
\* no field of a stored triple; a maintenance run changes only status and
\* deprecated_version of stored triples, and the triples it appends are
\* ACTIVE when it returns
StoreAppendOnly ==
    [][ LET old == self.knowledge_graph.triples
            new == self'.knowledge_graph.triples
            maintenance == /\ ret'.op \in { "process_document", "process_update_document" }
                           /\ "triples" \notin DOMAIN ret'.ret
        IN  /\ Len(new) >= Len(old)
            /\ \A i \in 1..Len(old) :
                   IF maintenance THEN Frame(new[i]) = Frame(old[i])
                                  ELSE new[i] = old[i]
            /\ maintenance =>
                   \A j \in (Len(old) + 1)..Len(new) :
                       new[j].status = ACTIVE /\ new[j].deprecated_version = EmptyStr
      ]_vars

\* a maintenance run has deprecated the first stored triple and appended a
\* synthesized one behind the stored triples
DeprecatedThenAppended ==
    /\ ret.op = "process_update_document"
    /\ ~ret.ret.raised
    /\ ret.ret.triples_deprecated = 1
    /\ ret.ret.triples_added = 1
    /\ Len(self.knowledge_graph.triples) = 3
    /\ self.knowledge_graph.triples[1].status = DEPRECATED
    /\ self.knowledge_graph.triples[3].relation = INTRODUCED_IN
    /\ self.knowledge_graph.triples[3].status = ACTIVE


\* C30: in every reachable state every stored triple has a non-empty head
\* and a non-empty tail, the triples synthesized from change records with a
\* non-empty entity_name included
StoredTriplesNamed ==
    \A i \in 1..Len(self.knowledge_graph.triples) :
        /\ self.knowledge_graph.triples[i].head # EmptyStr
        /\ self.knowledge_graph.triples[i].tail # EmptyStr

====
